---- MODULE Spec2Model ----
(***************************************************************************)
(* Model of the k8s-graph graph assembly engine: GraphBuilder (builder.py),*)
(* the native and cert-manager discoverers, node identity and the fetch    *)
(* collaborator.  Node ids are the strings the code formats; the recursion *)
(* of _expand_from_node is an explicit stack of frames.                    *)
(***************************************************************************)
EXTENDS Integers, Sequences, FiniteSets, TLC

\* ------------------------------------------------------------------ bounds
MaxDepth == 2
MaxCeil == 3
MaxPods == 2
MaxRegs == 3
MaxBuilds == 3

\* BuildOptions.max_nodes default (spec section 6)
DefaultMaxNodes == 500

\* Python None / absent field
None == "None"

\* ------------------------------------------------------------ value types
\* ResourceIdentifier(kind, name, namespace)
RID(k, n, ns) == [kind |-> k, name |-> n, namespace |-> ns]

\* No identifier (an absent argument)
NoId == RID(None, None, None)

\* ResourceRelationship(source, target, relationship_type, details)
Rel(s, t, ty, d) == [source |-> s, target |-> t, relationship_type |-> ty, details |-> d]

\* A nested field of a resource dict: absent, null (Python None), or present
\* with a value.  A list is a sequence; a dict holding a name is <<name>>, a
\* dict without one <<None>>, the empty dict <<>>.
Absent == [st |-> "absent", val |-> <<>>]
Null == [st |-> "null", val |-> <<>>]
Present(v) == [st |-> "present", val |-> v]

\* A resource dict: kind, apiVersion, metadata.{name,namespace,labels,annotations,
\* ownerReferences}, and the spec fields the modelled discoverers read.
\* apiVersion is "" when the key is absent and None when it is null; hash and
\* app are the labels pod-template-hash and app, labels the state of
\* metadata.labels with its other labels as <<key, value>> pairs, annotations
\* the state of metadata.annotations with its keys.
Resource(k, n) ==
    [kind |-> k, apiVersion |-> "v1", name |-> n, namespace |-> "default",
     hash |-> None, owners |-> <<>>,
     labels |-> Present(<<>>), annotations |-> Absent,
     scaleTargetRef |-> Absent, triggers |-> Absent,
     volumes |-> Absent, containers |-> Absent, initContainers |-> Absent,
     secretName |-> None, tlsSecret |-> None,
     app |-> None, selector |-> <<>>, roleRef |-> None, subjectSA |-> None,
     podSelector |-> <<>>]

OwnerRef(k, n) == [kind |-> k, name |-> n]

\* ---------------------------------------------------------------- cluster
\* The resources a cluster may hold, in listing order.
PodOf(i) ==
    [Resource("Pod", IF i = 1 THEN "web-h1-a" ELSE IF i = 2 THEN "web-h1-b"
                     ELSE "web-h1-c") EXCEPT
        !.hash = "h1", !.app = "web", !.owners = <<OwnerRef("ReplicaSet", "web-h1")>>]

Dep == [Resource("Deployment", "web") EXCEPT !.apiVersion = "apps/v1"]
RS == [Resource("ReplicaSet", "web-h1") EXCEPT !.apiVersion = "apps/v1",
          !.hash = "h1", !.owners = <<OwnerRef("Deployment", "web")>>]
JobR == [Resource("Job", "batch") EXCEPT !.apiVersion = "batch/v1"]
JobPod ==
    [Resource("Pod", "batch-x") EXCEPT
        !.owners = <<OwnerRef("Job", "batch")>>,
        !.volumes = Present(<<[configMap |-> Present(<<"cfg">>), secret |-> Absent,
                               persistentVolumeClaim |-> Absent]>>),
        !.containers = Present(<<[envFrom |-> Present(<<[configMapRef |-> Present(<<"cfg">>),
                                                         secretRef |-> Absent]>>),
                                  env |-> Null]>>)]
DSet == [Resource("DaemonSet", "agent") EXCEPT !.apiVersion = "apps/v1"]
DSetPod == [Resource("Pod", "agent-x") EXCEPT !.owners = <<OwnerRef("DaemonSet", "agent")>>]
Cfg == Resource("ConfigMap", "cfg")
Nameless == Resource("ConfigMap", None)
Cert == [Resource("Certificate", "tls-cert") EXCEPT
            !.apiVersion = "cert-manager.io/v1", !.secretName = "tls"]
Ing == [Resource("Ingress", "web-ing") EXCEPT
            !.apiVersion = "networking.k8s.io/v1", !.tlsSecret = "tls"]
\* A Certificate whose owner reference has a kind no ResourceIdentifier accepts
CertBad == [Resource("Certificate", "bad-cert") EXCEPT
               !.apiVersion = "cert-manager.io/v1", !.secretName = "tls",
               !.owners = <<OwnerRef("issuer", "ca")>>]
\* Services: one selecting the replica Pods by two labels, one without selector
Svc == [Resource("Service", "web-svc") EXCEPT
           !.selector = <<<<"app", "web">>, <<"pod-template-hash", "h1">>>>]
SvcNoSel == Resource("Service", "headless")
RB == [Resource("RoleBinding", "web-rb") EXCEPT
          !.apiVersion = "rbac.authorization.k8s.io/v1",
          !.roleRef = "web-role", !.subjectSA = "web-sa"]
NP == [Resource("NetworkPolicy", "web-np") EXCEPT
          !.apiVersion = "networking.k8s.io/v1", !.podSelector = <<<<"app", "web">>>>]

\* Cluster contents: a Deployment, its ReplicaSet and n replica Pods; a Job with
\* its Pod, which mounts a ConfigMap as volume and as envFrom; a DaemonSet with its
\* Pod; two Services, a RoleBinding, a NetworkPolicy; two Certificates with the
\* Ingress that uses their secret; optionally a listed ConfigMap without a name.
RECURSIVE Pods(_)
Pods(n) == IF n = 0 THEN <<>> ELSE Append(Pods(n - 1), PodOf(n))

ClusterOf(n, withNameless) ==
    <<Dep, RS>> \o Pods(n) \o <<JobR, JobPod, DSet, DSetPod, Cfg>>
    \o (IF withNameless THEN <<Nameless>> ELSE <<>>)
    \o <<Svc, SvcNoSel, RB, NP, Cert, CertBad, Ing>>

Clusters == {ClusterOf(n, b) : n \in 0..MaxPods, b \in BOOLEAN}

Range(s) == {s[i] : i \in 1..Len(s)}

\* ------------------------------------------------------ fetch collaborator
VARIABLES cluster, fault

IdOfResource(r) == RID(r.kind, r.name, r.namespace)

\* K8sClientProtocol.get_resource: the resource, None, or an exception.
\* fault names one identifier whose fetch fails ("raise": a fetch error,
\* "denied": a permission error).
get_resource(id) ==
    IF fault.mode # "none" /\ fault.id = id
    THEN [tag |-> fault.mode, res |-> None]
    ELSE LET hits == SelectSeq(cluster, LAMBDA r :
                        r.kind = id.kind /\ r.name = id.name /\ r.namespace = id.namespace)
         IN IF hits = <<>> THEN [tag |-> "none", res |-> None]
            ELSE [tag |-> "ok", res |-> hits[1]]

\* K8sClientProtocol.list_resources(kind, namespace)
list_resources(kind, ns) ==
    SelectSeq(cluster, LAMBDA r : r.kind = kind /\ (ns = None \/ r.namespace = ns))

\* A discoverer constructed without client has self.client None (fault mode
\* "absent"); fault mode "raise_list" makes the listing of one kind raise.
HasClient == fault.mode # "absent"
ListFails(kind) == fault.mode = "raise_list" /\ fault.id.kind = kind

\* ----------------------------------------------------------- node identity
NsPart(ns) == IF ns = None THEN "cluster" ELSE ns

\* NodeIdentity.get_pod_template_id
get_pod_template_id(r) ==
    IF r.kind = "Pod" /\ r.owners # <<>> /\ r.hash # None
    THEN NsPart(r.namespace) \o ":" \o r.owners[1].kind \o ":" \o r.owners[1].name
         \o ":" \o r.hash
    ELSE None

\* NodeIdentity.get_node_id; IdentityError when the resource has no name.
IdentityError == "IdentityError"

get_node_id_by_name(r) ==
    IF r.name = None THEN IdentityError
    ELSE r.kind \o ":" \o NsPart(r.namespace) \o ":" \o r.name

get_node_id(r) ==
    IF r.name = None THEN IdentityError
    ELSE IF r.kind = "Pod" /\ r.owners # <<>> /\ r.hash # None
    THEN "Pod:" \o NsPart(r.namespace) \o ":" \o r.owners[1].kind \o "-"
         \o r.owners[1].name \o ":" \o r.hash
    ELSE IF r.kind = "ReplicaSet" /\ r.owners # <<>> /\ r.hash # None
    THEN "ReplicaSet:" \o NsPart(r.namespace) \o ":" \o r.owners[1].name \o ":" \o r.hash
    ELSE r.kind \o ":" \o NsPart(r.namespace) \o ":" \o r.name

\* NodeIdentity.extract_node_attributes: kind, name, namespace plus labels etc.
extract_node_attributes(r) ==
    [kind |-> r.kind, name |-> r.name, namespace |-> r.namespace,
     labels |-> r.hash, api_version |-> r.apiVersion]

\* The placeholder attributes of a relationship endpoint.
PlaceholderAttrs(id) == [kind |-> id.kind, name |-> id.name, namespace |-> id.namespace]

\* GraphBuilder._get_node_id_from_identifier
get_node_id_from_identifier(id) ==
    id.kind \o ":" \o NsPart(id.namespace) \o ":" \o id.name

\* ------------------------------------------------------------- discoverers
\* ResourceIdentifier validation: kind and name must be non-empty and the kind
\* must start with an upper-case letter; MalformedKinds are the kinds of the
\* model that do not.
MalformedKinds == {"issuer"}
ValidRID(k, n) == k # None /\ n # None /\ k \notin MalformedKinds

\* BaseDiscoverer._extract_resource_identifier: ValueError when it cannot.
CanExtract(r) == ValidRID(r.kind, r.name)

\* A discover result: the relationships, or an exception propagated.
Ok(rels) == [raised |-> FALSE, rels |-> rels]
Raised == [raised |-> TRUE, rels |-> <<>>]

\* NativeResourceDiscoverer._discover_owner_references: one OWNER relationship
\* per owner reference, source the resource itself, target the owner.  The
\* construction of the owner's identifier is outside the try block: a
\* ValidationError propagates.
RECURSIVE OwnerRels(_, _, _)
OwnerRels(r, refs, acc) ==
    IF refs = <<>> THEN Ok(acc)
    ELSE LET o == Head(refs) IN
         IF o.kind = None \/ o.name = None THEN OwnerRels(r, Tail(refs), acc)
         ELSE IF ~ValidRID(o.kind, o.name) THEN Raised
         ELSE OwnerRels(r, Tail(refs),
                Append(acc, Rel(IdOfResource(r), RID(o.kind, o.name, r.namespace),
                                "owner", r.kind \o " owned by " \o o.kind)))

discover_owner_references(r) ==
    IF r.owners = <<>> THEN Ok(<<>>)
    ELSE IF ~CanExtract(r) THEN Ok(<<>>)
    ELSE OwnerRels(r, r.owners, <<>>)

\* BaseDiscoverer._parse_label_selector: "k1=v1,k2=v2" in the dict's order
RECURSIVE parse_label_selector(_)
parse_label_selector(sel) ==
    IF sel = <<>> THEN ""
    ELSE IF Len(sel) = 1 THEN sel[1][1] \o "=" \o sel[1][2]
    ELSE sel[1][1] \o "=" \o sel[1][2] \o "," \o parse_label_selector(Tail(sel))

\* NativeResourceDiscoverer._discover_service_relationships: one LABEL_SELECTOR
\* relationship to the wildcard Pod identifier when the selector is not empty.
discover_service_resolving(r) ==
    IF ~CanExtract(r) \/ r.selector = <<>> THEN <<>>
    ELSE IF \A p \in Range(cluster) : p.kind # "Pod" \/ p.app # r.selector[1][2] THEN <<>>
    ELSE <<Rel(IdOfResource(r),
               RID("Pod", "*[" \o parse_label_selector(r.selector) \o "]", r.namespace),
               "label_selector",
               "Selects pods with labels: " \o parse_label_selector(r.selector))>>

discover_service_relationships(r) ==
    IF ~CanExtract(r) THEN <<>>
    ELSE IF r.selector = <<>> THEN <<>>
    ELSE <<Rel(IdOfResource(r),
               RID("Pod", "*[" \o parse_label_selector(r.selector) \o "]", r.namespace),
               "label_selector",
               "Selects pods with labels: " \o parse_label_selector(r.selector))>>

\* "x.get(key) or []": the list, empty when the key is absent or null
OrEmpty(f) == IF f.st = "present" THEN f.val ELSE <<>>

\* "ref = x.get(key); if ref and isinstance(ref, dict): ref.get(name)": the
\* name, None when the key is absent or null, the dict empty or without name
NameIn(f) == IF f.st = "present" /\ f.val # <<>> THEN f.val[1] ELSE None

\* The relationship to the object a reference names, if it names one
RefRel(source, kind, f, ty, details) ==
    IF NameIn(f) # None
    THEN <<Rel(source, RID(kind, NameIn(f), source.namespace), ty, details)>>
    ELSE <<>>

\* NativeResourceDiscoverer._discover_pod_volumes: per volume its configMap,
\* secret and persistentVolumeClaim
RECURSIVE VolumeRels(_, _, _)
VolumeRels(vols, source, acc) ==
    IF vols = <<>> THEN acc
    ELSE LET v == Head(vols) IN
         VolumeRels(Tail(vols), source,
            acc \o RefRel(source, "ConfigMap", v.configMap, "volume",
                          "Mounts ConfigMap as volume")
                \o RefRel(source, "Secret", v.secret, "volume", "Mounts Secret as volume")
                \o RefRel(source, "PersistentVolumeClaim", v.persistentVolumeClaim,
                          "pvc", "Uses PVC"))

discover_pod_volumes(r, source) == VolumeRels(OrEmpty(r.volumes), source, <<>>)

\* The envFrom loop of _discover_pod_env_from (lines 237-273)
RECURSIVE EnvFromRels(_, _, _)
EnvFromRels(srcs, source, acc) ==
    IF srcs = <<>> THEN acc
    ELSE EnvFromRels(Tail(srcs), source,
            acc \o RefRel(source, "ConfigMap", Head(srcs).configMapRef, "env_from",
                          "Container uses ConfigMap for env")
                \o RefRel(source, "Secret", Head(srcs).secretRef, "env_from",
                          "Container uses Secret for env"))

\* The env loop of _discover_pod_env_from (lines 275-313):
\* value_from = env_var.get("valueFrom", {}) is the empty dict when the key is
\* absent and None when it is null; value_from.get on None raises.
RECURSIVE EnvVarRels(_, _, _)
EnvVarRels(envs, source, acc) ==
    IF envs = <<>> THEN Ok(acc)
    ELSE LET vf == Head(envs).valueFrom IN
         IF vf.st = "null" THEN Raised
         ELSE IF vf.st = "absent" \/ vf.val = <<>> THEN EnvVarRels(Tail(envs), source, acc)
         ELSE EnvVarRels(Tail(envs), source,
                acc \o RefRel(source, "ConfigMap", vf.val[1].configMapKeyRef, "env_var",
                              "Container uses ConfigMap key for env var")
                    \o RefRel(source, "Secret", vf.val[1].secretKeyRef, "env_var",
                              "Container uses Secret key for env var"))

\* The container loop of _discover_pod_env_from
RECURSIVE ContainerRels(_, _, _)
ContainerRels(cs, source, acc) ==
    IF cs = <<>> THEN Ok(acc)
    ELSE LET c == Head(cs)
             vars == EnvVarRels(OrEmpty(c.env), source, <<>>)
         IN IF vars.raised THEN Raised
            ELSE ContainerRels(Tail(cs), source,
                    acc \o EnvFromRels(OrEmpty(c.envFrom), source, <<>>) \o vars.rels)

\* NativeResourceDiscoverer._discover_pod_env_from over containers and
\* initContainers
discover_pod_env_from(r, source) ==
    ContainerRels(OrEmpty(r.containers) \o OrEmpty(r.initContainers), source, <<>>)

\* NativeResourceDiscoverer._discover_pod_relationships
discover_pod_relationships(r) ==
    IF ~CanExtract(r) THEN Ok(<<>>)
    ELSE LET env == discover_pod_env_from(r, IdOfResource(r)) IN
         IF env.raised THEN Raised
         ELSE Ok(discover_pod_volumes(r, IdOfResource(r)) \o env.rels)

\* The owned-children scan of _discover_workload_relationships: one OWNED
\* relationship per listed child with a matching owner reference; building the
\* identifier of a child without a name raises, which ends the scan (the except
\* clause keeps what was appended).
HasOwner(child, kind, name) ==
    \E i \in 1..Len(child.owners) :
        child.owners[i].name = name /\ child.owners[i].kind = kind

RECURSIVE OwnedRels(_, _, _, _)
OwnedRels(source, ownedKind, children, acc) ==
    IF children = <<>> THEN acc
    ELSE LET c == Head(children) IN
         IF ~HasOwner(c, source.kind, source.name)
         THEN OwnedRels(source, ownedKind, Tail(children), acc)
         ELSE IF ~ValidRID(ownedKind, c.name) THEN acc
         ELSE OwnedRels(source, ownedKind, Tail(children),
                Append(acc, Rel(source, RID(ownedKind, c.name, c.namespace), "owned",
                                source.kind \o " owns " \o ownedKind)))

\* The kinds whose children _discover_workload_relationships looks up.
WorkloadKinds == {"Deployment", "StatefulSet", "DaemonSet", "ReplicaSet"}

\* NativeResourceDiscoverer._discover_workload_relationships
OwnedKindAlwaysPod(kind) == "Pod"

OwnedKindOf(kind) == IF kind = "Deployment" THEN "ReplicaSet" ELSE "Pod"

discover_workload_relationships(r) ==
    IF ~CanExtract(r) THEN <<>>
    ELSE IF ~HasClient \/ ListFails(OwnedKindOf(r.kind)) THEN <<>>
    ELSE LET source == IdOfResource(r) IN
         OwnedRels(source, OwnedKindOf(source.kind),
                   list_resources(OwnedKindOf(source.kind), source.namespace), <<>>)

\* list_resources calls made by the native discoverer for a resource
NativeListCalls(r) ==
    IF r.kind \in WorkloadKinds /\ CanExtract(r) /\ HasClient THEN 1 ELSE 0

\* NativeResourceDiscoverer.discover
NativeDiscover(r) ==
    IF r.kind = None THEN Ok(<<>>)
    ELSE LET own == discover_owner_references(r) IN
         IF own.raised THEN Raised
         ELSE IF r.kind = "Pod"
         THEN LET pod == discover_pod_relationships(r) IN
              IF pod.raised THEN Raised ELSE Ok(own.rels \o pod.rels)
         ELSE Ok(own.rels \o
                 (IF r.kind = "Service" THEN discover_service_relationships(r)
                  ELSE IF r.kind \in WorkloadKinds THEN discover_workload_relationships(r)
                  ELSE <<>>))

\* RBACDiscoverer: supports RoleBinding and ClusterRoleBinding; a binding yields
\* one relationship to its roleRef and one per ServiceAccount subject.
RBACKinds == {"RoleBinding", "ClusterRoleBinding"}
RBACSupports(r) == r.kind \in RBACKinds
RBACDiscover(r) ==
    IF ~CanExtract(r) THEN Ok(<<>>)
    ELSE Ok((IF r.roleRef # None
             THEN <<Rel(IdOfResource(r), RID("Role", r.roleRef, r.namespace),
                        "role_binding", "Binds to Role")>>
             ELSE <<>>)
            \o (IF r.subjectSA # None
                THEN <<Rel(IdOfResource(r), RID("ServiceAccount", r.subjectSA, r.namespace),
                           "role_binding", "Binds ServiceAccount")>>
                ELSE <<>>))

\* NetworkPolicyDiscoverer: supports NetworkPolicy; a policy with a podSelector
\* yields a NETWORK_POLICY relationship to the wildcard Pod identifier.
NetworkSupports(r) == r.kind = "NetworkPolicy"
NetworkDiscover(r) ==
    IF ~CanExtract(r) \/ r.podSelector = <<>> THEN Ok(<<>>)
    ELSE Ok(<<Rel(IdOfResource(r),
                  RID("Pod", "*[" \o parse_label_selector(r.podSelector) \o "]", r.namespace),
                  "network_policy", "Policy applies to pods")>>)

\* CertManagerHandler.get_crd_kinds
CertManagerKinds == {"Certificate", "Issuer", "ClusterIssuer", "CertificateRequest"}

\* CertManagerHandler.supports: kind is a cert-manager kind and the apiVersion
\* contains "cert-manager.io".
CertManagerApiVersions == {"cert-manager.io/v1"}
CertManagerSupports(r) == r.kind \in CertManagerKinds /\ r.apiVersion \in CertManagerApiVersions

\* The Ingress scan of CertManagerHandler.discover: for each listed Ingress whose
\* tls secretName is the Certificate's, a relationship with source the Ingress
\* and target the Certificate itself.
RECURSIVE IngressRels(_, _, _, _)
IngressRels(sourceId, secretName, ingresses, acc) ==
    IF ingresses = <<>> THEN acc
    ELSE LET g == Head(ingresses) IN
         IF g.tlsSecret # secretName THEN IngressRels(sourceId, secretName, Tail(ingresses), acc)
         ELSE IF ~ValidRID("Ingress", g.name) THEN acc
         ELSE IngressRels(sourceId, secretName, Tail(ingresses),
                Append(acc, Rel(RID("Ingress", g.name, sourceId.namespace), sourceId,
                                "ingress_backend", "Ingress uses Certificate")))

\* CertManagerHandler.discover
CertManagerDiscover(r) ==
    IF ~CanExtract(r) THEN Ok(<<>>)
    ELSE IF r.kind # "Certificate" THEN Ok(<<>>)
    ELSE LET sourceId == IdOfResource(r)
             secret == IF r.secretName # None /\ HasClient
                       THEN get_resource(RID("Secret", r.secretName, r.namespace))
                       ELSE [tag |-> "none", res |-> None]
             issued == IF secret.tag = "ok"
                       THEN <<Rel(sourceId, RID("Secret", r.secretName, r.namespace),
                                  "cert_issued", "Certificate stored in Secret")>>
                       ELSE <<>>
         IN Ok(issued \o
               (IF HasClient /\ r.namespace # None /\ r.secretName # None
                   /\ ~ListFails("Ingress")
                THEN IngressRels(sourceId, r.secretName,
                                 list_resources("Ingress", r.namespace), <<>>)
                ELSE <<>>))

\* The trigger loop of KEDAHandler.discover (lines 66-98): trigger.get("metadata",
\* {}) is None for a null metadata and the "in" test on it raises.
RECURSIVE TriggerRels(_, _, _)
TriggerRels(ts, source, acc) ==
    IF ts = <<>> THEN Ok(acc)
    ELSE LET m == Head(ts).metadata IN
         IF m.st = "null" THEN Raised
         ELSE IF m.st = "absent" \/ m.val = <<>> THEN TriggerRels(Tail(ts), source, acc)
         ELSE TriggerRels(Tail(ts), source,
                acc \o (IF m.val[1].configMapName # None
                        THEN <<Rel(source, RID("ConfigMap", m.val[1].configMapName,
                                               source.namespace),
                                   "managed", "KEDA trigger config")>>
                        ELSE <<>>)
                    \o (IF m.val[1].secretName # None
                        THEN <<Rel(source, RID("Secret", m.val[1].secretName,
                                               source.namespace),
                                   "managed", "KEDA trigger credentials")>>
                        ELSE <<>>))

\* KEDAHandler.discover: the lookup of the scale target has its own handler,
\* everything else falls to the outer one, which returns the empty list.
KEDADiscover(r) ==
    IF ~CanExtract(r) \/ r.scaleTargetRef.st = "null" THEN Ok(<<>>)
    ELSE LET source == IdOfResource(r)
             ref == IF r.scaleTargetRef.val = <<>> THEN [kind |-> None, name |-> None]
                    ELSE r.scaleTargetRef.val[1]
             target == RID(ref.kind, ref.name, r.namespace)
             scaled == IF /\ ref.kind # None /\ ref.name # None /\ HasClient
                          /\ ValidRID(ref.kind, ref.name)
                          /\ get_resource(target).tag = "ok"
                       THEN <<Rel(source, target, "keda_scale", "KEDA scales " \o ref.kind)>>
                       ELSE <<>>
             triggered == IF r.triggers.st = "null" THEN Raised
                          ELSE TriggerRels(OrEmpty(r.triggers), source, <<>>)
         IN IF triggered.raised THEN Ok(<<>>) ELSE Ok(scaled \o triggered.rels)

\* ------------------------------------------------------- supports outcomes
\* What a supports call does: return a boolean, or raise
Bool(b) == [raised |-> FALSE, value |-> b]
Throws == [raised |-> TRUE, value |-> FALSE]

\* The handlers whose supports is "kind in <kinds> and <group> in api_version"
\* (airflow lower-cases, argocd and argo_workflows use startswith): their kinds,
\* and the apiVersions of the model that pass the group test.
KindGroupHandlers ==
    [airflow |-> [kinds |-> {"AirflowCluster", "AirflowBase", "Airflow"},
                  versions |-> {"airflow.apache.org/v1beta1"}],
     argo_workflows |-> [kinds |-> {"Workflow", "CronWorkflow", "WorkflowTemplate"},
                         versions |-> {"argoproj.io/v1alpha1"}],
     argocd |-> [kinds |-> {"Application"}, versions |-> {"argoproj.io/v1alpha1"}],
     cert_manager |-> [kinds |-> CertManagerKinds, versions |-> CertManagerApiVersions],
     flux |-> [kinds |-> {"HelmRelease", "Kustomization", "GitRepository", "HelmRepository"},
               versions |-> {"helm.toolkit.fluxcd.io/v2beta1"}],
     istio |-> [kinds |-> {"VirtualService", "DestinationRule", "Gateway"},
                versions |-> {"networking.istio.io/v1beta1"}],
     keda |-> [kinds |-> {"ScaledObject", "ScaledJob"}, versions |-> {"keda.sh/v1alpha1"}],
     knative |-> [kinds |-> {"Service", "Route", "Configuration", "Revision"},
                  versions |-> {"serving.knative.dev/v1"}],
     prometheus |-> [kinds |-> {"ServiceMonitor", "PodMonitor", "PrometheusRule"},
                     versions |-> {"monitoring.coreos.com/v1"}],
     spark |-> [kinds |-> {"SparkApplication"}, versions |-> {"sparkoperator.k8s.io/v1beta2"}],
     tekton |-> [kinds |-> {"Pipeline", "PipelineRun", "Task", "TaskRun"},
                 versions |-> {"tekton.dev/v1beta1"}],
     velero |-> [kinds |-> {"Backup", "Restore", "Schedule"}, versions |-> {"velero.io/v1"}]]

\* api_version = resource.get("apiVersion", ""): the membership, lower() and
\* startswith tests raise on None; "and" evaluates them only for a listed kind.
KindGroupSupports(h, r) ==
    IF r.kind \notin h.kinds THEN Bool(FALSE)
    ELSE IF r.apiVersion = None THEN Throws
    ELSE Bool(r.apiVersion \in h.versions)

\* labels.get(key, default) on a list of <<key, value>> pairs
RECURSIVE Lookup(_, _, _)
Lookup(pairs, key, default) ==
    IF pairs = <<>> THEN default
    ELSE IF Head(pairs)[1] = key THEN Head(pairs)[2]
    ELSE Lookup(Tail(pairs), key, default)

\* HelmHandler.supports: metadata.get("annotations", {}).get(...) and
\* metadata.get("labels", {}).get(...) raise when the field is null.
HelmSupports(r) ==
    IF r.annotations.st = "null" THEN Throws
    ELSE IF "meta.helm.sh/release-name" \in Range(OrEmpty(r.annotations)) THEN Bool(TRUE)
    ELSE IF r.labels.st = "null" THEN Throws
    ELSE Bool(Lookup(OrEmpty(r.labels), "app.kubernetes.io/managed-by", None) = "Helm")

\* CrossplaneHandler.supports: the "in annotations" tests raise on None and
\* are reached when the kind and group test is false.
CrossplaneSupports(r) ==
    LET CrossplaneKinds == {"Composition", "CompositeResourceDefinition"}
        CrossplaneApiVersions == {"apiextensions.crossplane.io/v1"}
    IN
    IF r.kind \in CrossplaneKinds /\ r.apiVersion = None THEN Throws
    ELSE IF r.kind \in CrossplaneKinds /\ r.apiVersion \in CrossplaneApiVersions
    THEN Bool(TRUE)
    ELSE IF r.annotations.st = "null" THEN Throws
    ELSE Bool(\/ "crossplane.io/claim-name" \in Range(OrEmpty(r.annotations))
              \/ "crossplane.io/claim-namespace" \in Range(OrEmpty(r.annotations)))

\* TemporalHandler.supports: labels.get raises on null labels for the four
\* kinds it looks at; the label values of the model that contain "workflow",
\* "worker" and "temporal".
TemporalSupports(r) ==
    LET WorkflowValues == {"workflow", "temporal-workflow"}
        WorkerValues == {"worker", "temporal-worker"}
        TemporalValues == {"temporal", "temporal-worker", "temporal-workflow"}
        component == Lookup(OrEmpty(r.labels), "component", "")
    IN
    IF r.kind \notin {"Deployment", "CronJob", "Pod", "Service"} THEN Bool(FALSE)
    ELSE IF r.labels.st = "null" THEN Throws
    ELSE IF r.kind = "Deployment"
    THEN Bool(component \in WorkflowValues \cup WorkerValues)
    ELSE IF r.kind = "CronJob" THEN Bool(component \in WorkflowValues)
    ELSE IF r.kind = "Pod"
    THEN Bool(component \in WorkflowValues \cup WorkerValues \/ r.app \in WorkflowValues)
    ELSE Bool(/\ Lookup(OrEmpty(r.labels), "app.kubernetes.io/component", "") = "frontend"
              /\ Lookup(OrEmpty(r.labels), "app.kubernetes.io/name", "") \in TemporalValues)

\* supports of each discoverer class
HandlerNames ==
    DOMAIN KindGroupHandlers \cup {"native", "rbac", "network", "helm", "crossplane", "temporal"}

supports(d, r) ==
    IF d = "native" THEN Bool(TRUE)
    ELSE IF d = "rbac" THEN Bool(RBACSupports(r))
    ELSE IF d = "network" THEN Bool(NetworkSupports(r))
    ELSE IF d = "helm" THEN HelmSupports(r)
    ELSE IF d = "crossplane" THEN CrossplaneSupports(r)
    ELSE IF d = "temporal" THEN TemporalSupports(r)
    ELSE KindGroupSupports(KindGroupHandlers[d], r)

\* ---------------------------------------------- registry, unified discoverer
VARIABLES
    registry,           \* DiscovererRegistry: general discoverers and kind overrides
    resolved,           \* the last get_discoverers_for_resource call and its result
    probe,              \* the last direct call of a discoverer or registry method
    crd_mapping         \* CRDRegistry._crd_mapping: kind -> CRD info

\* A registered discoverer: its class, its priority, its registration number.
Entry(name, priority, seq) == [name |-> name, priority |-> priority, seq |-> seq]

\* BaseDiscoverer.priority default
DefaultPriority == 50

EmptyRegistry == [general |-> <<>>, overrides |-> <<>>]

RegistrySize(reg) == Len(reg.general) + Len(reg.overrides)

\* DiscovererRegistry.register(discoverer, resource_kind)
register(reg, name, priority, kind) ==
    LET e == Entry(name, priority, RegistrySize(reg) + 1) IN
    IF kind = None THEN [reg EXCEPT !.general = Append(@, e)]
    ELSE [reg EXCEPT !.overrides = Append(@, [kind |-> kind, entry |-> e])]

\* The global registry a GraphBuilder uses by default: the built-in discoverers
DefaultRegistry ==
    register(register(register(register(EmptyRegistry,
        "native", DefaultPriority, None), "rbac", DefaultPriority, None),
        "network", DefaultPriority, None), "cert_manager", DefaultPriority, None)

\* DiscovererCategory of each discoverer class (BaseCRDHandler.categories: CRD)
Category(d) ==
    IF d = "native" THEN "NATIVE"
    ELSE IF d = "rbac" THEN "RBAC"
    ELSE IF d = "network" THEN "NETWORK" ELSE "CRD"

Supports(d, r) ==
    IF d = "native" THEN TRUE
    ELSE IF d = "rbac" THEN RBACSupports(r)
    ELSE IF d = "network" THEN NetworkSupports(r)
    ELSE CertManagerSupports(r)

Discover(d, r) ==
    IF d = "native" THEN NativeDiscover(r)
    ELSE IF d = "rbac" THEN RBACDiscover(r)
    ELSE IF d = "network" THEN NetworkDiscover(r)
    ELSE IF d = "keda" THEN KEDADiscover(r)
    ELSE CertManagerDiscover(r)

\* sorted(..., key=priority, reverse=True): stable, priority descending
RECURSIVE InsertByPriorityUnstable(_, _)
InsertByPriorityUnstable(sorted, e) ==
    IF sorted = <<>> THEN <<e>>
    ELSE IF Head(sorted).priority > e.priority
    THEN <<Head(sorted)>> \o InsertByPriorityUnstable(Tail(sorted), e)
    ELSE <<e>> \o sorted

RECURSIVE InsertByPriority(_, _)
InsertByPriority(sorted, e) ==
    IF sorted = <<>> THEN <<e>>
    ELSE IF Head(sorted).priority >= e.priority
    THEN <<Head(sorted)>> \o InsertByPriority(Tail(sorted), e)
    ELSE <<e>> \o sorted

RECURSIVE SortByPriority(_)
SortByPriority(es) ==
    IF es = <<>> THEN <<>>
    ELSE InsertByPriority(SortByPriority(SubSeq(es, 1, Len(es) - 1)), es[Len(es)])

\* The overrides registered for the resource's kind that support it, and the
\* general discoverers that support it, each in registration order.
SupportingOverridesAnyKind(reg, r) ==
    LET hits == SelectSeq(reg.overrides, LAMBDA o : Supports(o.entry.name, r))
    IN [i \in 1..Len(hits) |-> hits[i].entry]

SupportingOverrides(reg, r) ==
    LET hits == SelectSeq(reg.overrides, LAMBDA o :
                    o.kind = r.kind /\ Supports(o.entry.name, r))
    IN [i \in 1..Len(hits) |-> hits[i].entry]

SupportingGeneral(reg, r) ==
    SelectSeq(reg.general, LAMBDA e : Supports(e.name, r))

\* DiscovererRegistry.get_discoverers_for_resource: the supporting overrides of
\* the resource's kind when there are any, the supporting general discoverers
\* otherwise, by priority.
get_discoverers_union(reg, r) ==
    SortByPriority(SupportingGeneral(reg, r) \o SupportingOverrides(reg, r))

get_discoverers_for_resource(reg, r) ==
    IF SupportingOverrides(reg, r) # <<>>
    THEN SortByPriority(SupportingOverrides(reg, r))
    ELSE SortByPriority(SupportingGeneral(reg, r))

\* The category toggles of DiscoveryOptions
CategoryEnabledCrdAlways(c, opts) ==
    /\ c = "RBAC" => opts.include_rbac
    /\ c = "NETWORK" => opts.include_network

CategoryEnabled(c, opts) ==
    /\ c = "RBAC" => opts.include_rbac
    /\ c = "NETWORK" => opts.include_network
    /\ c = "CRD" => opts.include_crds

\* The discoverers discover_all_relationships invokes for a resource, in order:
\* the registry's resolution filtered by the enabled categories.
Applicable(r, opts) ==
    LET es == SelectSeq(get_discoverers_for_resource(registry, r),
                        LAMBDA e : CategoryEnabled(Category(e.name), opts))
    IN [i \in 1..Len(es) |-> es[i].name]

\* API calls (get_resource, list_resources) a discoverer makes for a resource
DiscovererCalls(d, r) ==
    IF d = "native" THEN [get |-> 0, list |-> NativeListCalls(r)]
    ELSE IF d = "cert_manager" /\ CanExtract(r) /\ r.kind = "Certificate"
            /\ r.secretName # None /\ HasClient
    THEN [get |-> 1, list |-> IF r.namespace # None THEN 1 ELSE 0]
    ELSE IF d = "keda" /\ CanExtract(r) /\ HasClient /\ r.scaleTargetRef.val # <<>>
    THEN [get |-> IF ValidRID(r.scaleTargetRef.val[1].kind, r.scaleTargetRef.val[1].name)
                  THEN 1 ELSE 0,
          list |-> 0]
    ELSE [get |-> 0, list |-> 0]

\* One discover invocation: the discoverer, what it returned, the calls it made
Run(d, r) == [d |-> d, out |-> Discover(d, r), calls |-> DiscovererCalls(d, r)]

\* UnifiedDiscoverer.discover_all_relationships: each applicable discoverer is
\* invoked in order, a raising one is counted and skipped, results concatenated.
RECURSIVE RunAllStopAtError(_, _, _)
RunAllStopAtError(ds, r, acc) ==
    IF ds = <<>> THEN acc
    ELSE LET run == Run(Head(ds), r) IN
         IF run.out.raised
         THEN [acc EXCEPT !.discoveries = @ + 1, !.errors = @ + 1,
                          !.runs = Append(@, run)]
         ELSE RunAllStopAtError(Tail(ds), r,
                [acc EXCEPT !.discoveries = @ + 1, !.rels = @ \o run.out.rels,
                            !.runs = Append(@, run)])

RECURSIVE RunAll(_, _, _)
RunAll(ds, r, acc) ==
    IF ds = <<>> THEN acc
    ELSE LET run == Run(Head(ds), r) IN
         RunAll(Tail(ds), r,
                IF run.out.raised
                THEN [acc EXCEPT !.discoveries = @ + 1, !.errors = @ + 1,
                                 !.runs = Append(@, run)]
                ELSE [acc EXCEPT !.discoveries = @ + 1, !.rels = @ \o run.out.rels,
                                 !.runs = Append(@, run)])

discover_all_relationships(r, opts) ==
    RunAll(Applicable(r, opts), r,
           [discoveries |-> 0, errors |-> 0, rels |-> <<>>, runs |-> <<>>])

RECURSIVE SumCalls(_, _)
SumCalls(ds, r) ==
    IF ds = <<>> THEN [get |-> 0, list |-> 0]
    ELSE LET a == DiscovererCalls(Head(ds), r)
             b == SumCalls(Tail(ds), r)
         IN [get |-> a.get + b.get, list |-> a.list + b.list]

\* ------------------------------------------------------------ graph builder
VARIABLES
    call,               \* the running build: operation, arguments, options
    status,             \* "idle", "running", "done" (graph returned), "raised"
    error,              \* the exception a raised build propagated
    nodes,              \* graph nodes: node id -> attributes
    edges,              \* graph edges: <<source id, target id>> -> attributes
    visited,            \* visited: set of node ids
    pod_templates,      \* self._pod_templates: template id -> record
    permission_errors,  \* self._permission_errors
    stats,              \* unified discoverer statistics
    stack,              \* the frames of _expand_from_node, innermost last
    nsloop,             \* build_namespace_graph's loops: kinds left, resources left
    apiCalls,           \* calls received by the fetch collaborator
    processed,          \* history: relationships folded, with the node folding them
    denied,             \* history: identifiers whose fetch was denied
    invoked,            \* history: the discover_all_relationships calls of the build
    builds,             \* history: number of builds started on this builder
    first               \* history: the first build of this builder and what it returned

vars == <<cluster, fault, registry, resolved, probe, crd_mapping, call, status, error, nodes, edges,
          visited, pod_templates, permission_errors, stats, stack, nsloop, apiCalls,
          processed, denied, invoked, builds, first>>

NodeCount == Cardinality(DOMAIN nodes)

\* nx.DiGraph.add_node / add_edge on the function representation
AddNode(g, id, attrs) == [x \in DOMAIN g \cup {id} |-> IF x = id THEN attrs ELSE g[x]]
AddEdge(g, s, t, attrs) ==
    [x \in DOMAIN g \cup {<<s, t>>} |-> IF x = <<s, t>> THEN attrs ELSE g[x]]
EmptyMap == [x \in {} |-> None]

\* BuildOptions
Options(m, rbac, net, crds) ==
    [max_nodes |-> m, include_rbac |-> rbac, include_network |-> net, include_crds |-> crds]

\* resource_kinds of build_namespace_graph
BaseKinds ==
    <<"Pod", "Service", "Deployment", "StatefulSet", "DaemonSet", "ReplicaSet", "Job",
      "CronJob", "ConfigMap", "Secret", "PersistentVolumeClaim", "ServiceAccount",
      "HorizontalPodAutoscaler", "PodDisruptionBudget", "ResourceQuota", "LimitRange",
      "Endpoints">>

resource_kinds(opts) ==
    BaseKinds
    \o (IF opts.include_rbac THEN <<"Role", "RoleBinding">> ELSE <<>>)
    \o (IF opts.include_network THEN <<"NetworkPolicy", "Ingress">> ELSE <<>>)

\* A frame of _expand_from_node: phase "enter" is the body up to the discovery,
\* "target" the first half of a loop iteration, "source" the second half.
Frame(r, d) == [res |-> r, depth |-> d, node_id |-> None, rels |-> <<>>, phase |-> "enter"]

Top == stack[Len(stack)]
Pop(stk) == SubSeq(stk, 1, Len(stk) - 1)

\* Return from every frame whose relationship loop is exhausted.
RECURSIVE Unwind(_)
Unwind(stk) ==
    IF stk = <<>> THEN stk
    ELSE LET f == stk[Len(stk)] IN
         IF f.phase = "target" /\ f.rels = <<>> THEN Unwind(Pop(stk)) ELSE stk

\* After the expansion returns: build_from_resource returns the graph.
StatusAfter(stk) ==
    IF stk = <<>> /\ call.op = "resource" THEN "done" ELSE "running"

\* GraphBuilder._should_sample_pod: its result, and _pod_templates afterwards.
should_sample_pod(r) ==
    /\ r.kind = "Pod"
    /\ get_pod_template_id(r) # None
    /\ get_pod_template_id(r) \in DOMAIN pod_templates

TemplatesAfter(r, nid) ==
    IF r.kind = "Pod" /\ get_pod_template_id(r) # None
       /\ get_pod_template_id(r) \notin DOMAIN pod_templates
    THEN AddNode(pod_templates, get_pod_template_id(r),
                 [node_id |-> nid, name |-> r.name, namespace |-> r.namespace])
    ELSE pod_templates

\* GraphBuilder.get_pod_sampling_info
get_pod_sampling_info ==
    [sampled_count |-> Cardinality(DOMAIN pod_templates),
     total_count |-> Cardinality(DOMAIN pod_templates) * 3,
     templates |-> {pod_templates[t] : t \in DOMAIN pod_templates}]

\* GraphBuilder.get_permission_errors
get_permission_errors == permission_errors

\* The ceiling test of _expand_from_node (line 212) and of the loops.
CeilingReachedStrict(n, opts) == n > opts.max_nodes
CeilingReached(n, opts) == n >= opts.max_nodes

\* The edge insertion of the relationship loop (lines 253-259): the edge is
\* keyed by the node being expanded and added only when absent.
FoldEdgeOverwrite(g, nid, tid, rel) ==
    AddEdge(g, nid, tid,
            [relationship_type |-> rel.relationship_type, details |-> rel.details])

FoldEdgeOnlyNewTarget(g, nid, tid, rel) ==
    IF <<nid, tid>> \in DOMAIN g \/ tid \in DOMAIN nodes THEN g
    ELSE AddEdge(g, nid, tid,
                 [relationship_type |-> rel.relationship_type, details |-> rel.details])

FoldEdge(g, nid, tid, rel) ==
    IF <<nid, tid>> \in DOMAIN g THEN g
    ELSE AddEdge(g, nid, tid,
                 [relationship_type |-> rel.relationship_type, details |-> rel.details])

\* ------------------------------------------------------------------ inputs
Seeds ==
    {IdOfResource(Dep), IdOfResource(RS), IdOfResource(PodOf(1)), IdOfResource(JobR),
     IdOfResource(JobPod), IdOfResource(DSet), IdOfResource(DSetPod), IdOfResource(Cert),
     IdOfResource(CertBad), IdOfResource(Svc), IdOfResource(SvcNoSel), IdOfResource(RB),
     IdOfResource(NP),
     RID("Pod", "nonexistent", "default")}

FaultIds == {IdOfResource(RS), IdOfResource(Cfg)}

Faults == {[mode |-> "none", id |-> NoId]}
          \cup {[mode |-> m, id |-> i] : m \in {"raise", "denied"}, i \in FaultIds}

MaxNodesChoices == (1..MaxCeil) \cup {DefaultMaxNodes}

OptionChoices == {Options(m, rbac, net, crds) :
                    m \in MaxNodesChoices, rbac \in BOOLEAN, net \in BOOLEAN,
                    crds \in BOOLEAN}

\* A fresh GraphBuilder
NoCall ==
    [op |-> "none", seed |-> NoId, namespace |-> None, depth |-> 0,
     opts |-> Options(DefaultMaxNodes, TRUE, TRUE, TRUE)]

\* What a finished build returned: the graph and the accessors' values
Returned ==
    [status |-> status, error |-> error, nodes |-> nodes, edges |-> edges,
     sampling |-> get_pod_sampling_info, permission_errors |-> get_permission_errors]

BuilderInit ==
    /\ call = NoCall
    /\ status = "idle"
    /\ error = None
    /\ nodes = EmptyMap
    /\ edges = EmptyMap
    /\ visited = {}
    /\ pod_templates = EmptyMap
    /\ permission_errors = <<>>
    /\ stats = [discoveries |-> 0, errors |-> 0, total_relationships |-> 0]
    /\ stack = <<>>
    /\ nsloop = [kinds |-> <<>>, pending |-> <<>>]
    /\ apiCalls = [get |-> 0, list |-> 0]
    /\ processed = <<>>
    /\ denied = {}
    /\ invoked = <<>>
    /\ builds = 0
    /\ first = [call |-> NoCall, returned |-> Returned]

Init ==
    /\ cluster \in Clusters
    /\ fault \in Faults
    /\ registry = DefaultRegistry
    /\ resolved = <<>>
    /\ probe = <<>>
    /\ crd_mapping = <<>>
    /\ BuilderInit

\* The per-call reset of both build operations (lines 91-96, 139-144).
ResetKeepingTemplates ==
    /\ nodes' = EmptyMap
    /\ edges' = EmptyMap
    /\ visited' = {}
    /\ permission_errors' = <<>>
    /\ pod_templates' = pod_templates
    /\ stats' = [discoveries |-> 0, errors |-> 0, total_relationships |-> 0]
    /\ processed' = <<>>
    /\ invoked' = <<>>
    /\ builds' = builds + 1
    /\ first' = IF builds = 1 THEN [call |-> call, returned |-> Returned] ELSE first

ResetForBuild ==
    /\ nodes' = EmptyMap
    /\ edges' = EmptyMap
    /\ visited' = {}
    /\ permission_errors' = <<>>
    /\ pod_templates' = EmptyMap
    /\ stats' = [discoveries |-> 0, errors |-> 0, total_relationships |-> 0]
    /\ processed' = <<>>
    /\ invoked' = <<>>
    /\ builds' = builds + 1
    /\ first' = IF builds = 1 THEN [call |-> call, returned |-> Returned] ELSE first

\* The exception a fetch outcome propagates
ErrorOf(tag) ==
    IF tag = "raise" THEN "FetchError"
    ELSE IF tag = "denied" THEN "PermissionError" ELSE None

\* build_from_resource, lines 98-103: a missing seed returns the empty graph,
\* a found one is expanded.
SeedOutcomeUnchecked(out, depth) ==
    IF out.tag = "ok" THEN [status |-> "running", frames |-> <<Frame(out.res, depth)>>]
    ELSE [status |-> "raised", frames |-> <<>>]

SeedOutcome(out, depth) ==
    IF out.tag \in {"raise", "denied"} THEN [status |-> "raised", frames |-> <<>>]
    ELSE IF out.tag = "none" THEN [status |-> "done", frames |-> <<>>]
    ELSE [status |-> "running", frames |-> <<Frame(out.res, depth)>>]

\* GraphBuilder.build_from_resource up to the call of _expand_from_node
StartFromResource(seed, depth, opts) ==
    /\ ResetForBuild
    /\ call' = [op |-> "resource", seed |-> seed, namespace |-> seed.namespace,
                depth |-> depth, opts |-> opts]
    /\ apiCalls' = [apiCalls EXCEPT !.get = @ + 1]
    /\ LET out == get_resource(seed) IN
        /\ status' = SeedOutcome(out, depth).status
        /\ error' = ErrorOf(out.tag)
        /\ stack' = SeedOutcome(out, depth).frames
        /\ denied' = IF out.tag = "denied" THEN {seed} ELSE {}
    /\ nsloop' = [kinds |-> <<>>, pending |-> <<>>]
    /\ UNCHANGED <<cluster, fault, registry, resolved, probe, crd_mapping>>

\* The first call on a fresh builder
BuildFromResource(seed, depth, opts) ==
    status = "idle" /\ StartFromResource(seed, depth, opts)

\* GraphBuilder.build_namespace_graph up to its loop over the kinds
StartNamespaceGraph(ns, depth, opts) ==
    /\ ResetForBuild
    /\ call' = [op |-> "namespace", seed |-> NoId, namespace |-> ns,
                depth |-> depth, opts |-> opts]
    /\ nsloop' = [kinds |-> resource_kinds(opts), pending |-> <<>>]
    /\ status' = "running"
    /\ error' = None
    /\ stack' = <<>>
    /\ denied' = {}
    /\ UNCHANGED <<cluster, fault, registry, resolved, probe, crd_mapping, apiCalls>>

BuildNamespaceGraph(ns, depth, opts) ==
    status = "idle" /\ StartNamespaceGraph(ns, depth, opts)

\* One iteration of "for kind in resource_kinds": the ceiling test, then the listing
NsNextKind ==
    /\ status = "running" /\ call.op = "namespace"
    /\ stack = <<>> /\ nsloop.pending = <<>> /\ nsloop.kinds # <<>>
    /\ IF CeilingReached(NodeCount, call.opts)
       THEN /\ status' = "done"
            /\ UNCHANGED <<nsloop, apiCalls>>
       ELSE /\ nsloop' = [kinds |-> Tail(nsloop.kinds),
                          pending |-> list_resources(Head(nsloop.kinds), call.namespace)]
            /\ apiCalls' = [apiCalls EXCEPT !.list = @ + 1]
            /\ UNCHANGED status
    /\ UNCHANGED <<cluster, fault, registry, resolved, probe, crd_mapping,
                   call, builds, first, error,
                   nodes, edges, visited, pod_templates, permission_errors, stats,
                   stack, processed, invoked, denied>>

\* One iteration of "for resource in resources": the ceiling test, then the call
NsNextResource ==
    /\ status = "running" /\ call.op = "namespace"
    /\ stack = <<>> /\ nsloop.pending # <<>>
    /\ IF CeilingReached(NodeCount, call.opts)
       THEN /\ nsloop' = [nsloop EXCEPT !.pending = <<>>]
            /\ UNCHANGED stack
       ELSE /\ nsloop' = [nsloop EXCEPT !.pending = Tail(@)]
            /\ stack' = <<Frame(Head(nsloop.pending), call.depth)>>
    /\ UNCHANGED <<cluster, fault, registry, resolved, probe, crd_mapping,
                   call, builds, first, status,
                   error, nodes, edges, visited, pod_templates, permission_errors,
                   stats, apiCalls, processed, invoked, denied>>

\* build_namespace_graph returns the graph after the last kind
NsFinish ==
    /\ status = "running" /\ call.op = "namespace"
    /\ stack = <<>> /\ nsloop.pending = <<>> /\ nsloop.kinds = <<>>
    /\ status' = "done"
    /\ UNCHANGED <<cluster, fault, registry, resolved, probe, crd_mapping,
                   call, builds, first, error,
                   nodes, edges, visited, pod_templates, permission_errors, stats,
                   stack, nsloop, apiCalls, processed, invoked, denied>>

\* "if depth > 0 and not already_visited" (line 231)
ShouldDiscoverAgain(depth, nid) == depth > 0
ShouldDiscover(depth, nid) == depth > 0 /\ nid \notin visited

\* _expand_from_node, lines 210-240: identity, ceiling, sampling, node insertion,
\* visited, discovery.  An IdentityError propagates out of the build.
Enter ==
    /\ status = "running" /\ stack # <<>> /\ Top.phase = "enter"
    /\ LET f == Top
           r == f.res
           nid == get_node_id(r)
       IN
       IF nid = IdentityError
       THEN /\ status' = "raised"
            /\ error' = IdentityError
            /\ UNCHANGED <<nodes, visited, pod_templates, stats, stack, apiCalls,
                           invoked>>
       ELSE IF CeilingReached(NodeCount, call.opts) \/ should_sample_pod(r)
       THEN /\ stack' = Unwind(Pop(stack))
            /\ status' = StatusAfter(Unwind(Pop(stack)))
            /\ UNCHANGED <<error, nodes, visited, pod_templates, stats, apiCalls,
                           invoked>>
       ELSE /\ pod_templates' = TemplatesAfter(r, nid)
            /\ nodes' = IF nid \in DOMAIN nodes THEN nodes
                        ELSE AddNode(nodes, nid, extract_node_attributes(r))
            /\ visited' = visited \cup {nid}
            /\ UNCHANGED error
            /\ IF ShouldDiscover(f.depth, nid)
               THEN LET out == discover_all_relationships(r, call.opts)
                        made == SumCalls(Applicable(r, call.opts), r)
                        stk == [stack EXCEPT ![Len(stack)] =
                                   [f EXCEPT !.node_id = nid, !.rels = out.rels,
                                             !.phase = "target"]]
                    IN /\ stats' = [discoveries |-> stats.discoveries + out.discoveries,
                                    errors |-> stats.errors + out.errors,
                                    total_relationships |->
                                        stats.total_relationships + Len(out.rels)]
                       /\ apiCalls' = [get |-> apiCalls.get + made.get,
                                       list |-> apiCalls.list + made.list]
                       /\ invoked' = Append(invoked,
                              [res |-> r, runs |-> out.runs, rels |-> out.rels,
                               errors |-> out.errors])
                       /\ stack' = Unwind(stk)
                       /\ status' = StatusAfter(Unwind(stk))
               ELSE /\ stack' = Unwind(Pop(stack))
                    /\ status' = StatusAfter(Unwind(Pop(stack)))
                    /\ UNCHANGED <<stats, apiCalls, invoked>>
    /\ UNCHANGED <<cluster, fault, registry, resolved, probe, crd_mapping,
                   call, builds, first, edges,
                   permission_errors, nsloop, processed, denied>>

\* The fetch of a relationship endpoint and the recursive call (lines 265-269,
\* 285-289): the frames afterwards, given the parent frame already advanced.
\* No handler surrounds the fetch: an exception propagates out of the build.
FetchAndRecurseSameDepth(id, parent, depth) ==
    LET out == get_resource(id)
        stk == [stack EXCEPT ![Len(stack)] = parent]
    IN /\ apiCalls' = [apiCalls EXCEPT !.get = @ + 1]
       /\ denied' = IF out.tag = "denied" THEN denied \cup {id} ELSE denied
       /\ error' = ErrorOf(out.tag)
       /\ IF out.tag \in {"raise", "denied"}
          THEN /\ status' = "raised"
               /\ stack' = stk
          ELSE IF out.tag = "ok"
          THEN /\ stack' = Append(stk, Frame(out.res, depth))
               /\ status' = "running"
          ELSE /\ stack' = Unwind(stk)
               /\ status' = StatusAfter(Unwind(stk))

FetchAndRecurse(id, parent, depth) ==
    LET out == get_resource(id)
        stk == [stack EXCEPT ![Len(stack)] = parent]
    IN /\ apiCalls' = [apiCalls EXCEPT !.get = @ + 1]
       /\ denied' = IF out.tag = "denied" THEN denied \cup {id} ELSE denied
       /\ error' = ErrorOf(out.tag)
       /\ IF out.tag \in {"raise", "denied"}
          THEN /\ status' = "raised"
               /\ stack' = stk
          ELSE IF out.tag = "ok"
          THEN /\ stack' = Append(stk, Frame(out.res, depth - 1))
               /\ status' = "running"
          ELSE /\ stack' = Unwind(stk)
               /\ status' = StatusAfter(Unwind(stk))

NoFetch(parent) ==
    /\ stack' = Unwind([stack EXCEPT ![Len(stack)] = parent])
    /\ status' = StatusAfter(Unwind([stack EXCEPT ![Len(stack)] = parent]))
    /\ UNCHANGED <<apiCalls, denied, error>>

\* First half of a loop iteration (lines 243-269): the target placeholder, the
\* edge, the expansion of the target.
RelTarget ==
    /\ status = "running" /\ stack # <<>> /\ Top.phase = "target" /\ Top.rels # <<>>
    /\ LET f == Top
           rel == Head(f.rels)
           tid == get_node_id_from_identifier(rel.target)
           nodes1 == IF tid \in DOMAIN nodes THEN nodes
                     ELSE AddNode(nodes, tid, PlaceholderAttrs(rel.target))
           parent == [f EXCEPT !.phase = "source"]
       IN /\ nodes' = nodes1
          /\ edges' = FoldEdge(edges, f.node_id, tid, rel)
          /\ processed' = Append(processed,
                [at |-> f.node_id, self |-> IdOfResource(f.res), rel |-> rel])
          /\ IF tid \notin visited /\ Cardinality(DOMAIN nodes1) < call.opts.max_nodes
             THEN FetchAndRecurse(rel.target, parent, f.depth)
             ELSE NoFetch(parent)
    /\ UNCHANGED <<cluster, fault, registry, resolved, probe, crd_mapping,
                   call, builds, first, visited,
                   pod_templates, permission_errors, stats, nsloop, invoked>>

\* Second half of a loop iteration (lines 271-289): the source placeholder and
\* the expansion of the source, unless the source is the node being expanded.
RelSource ==
    /\ status = "running" /\ stack # <<>> /\ Top.phase = "source"
    /\ LET f == Top
           rel == Head(f.rels)
           sid == get_node_id_from_identifier(rel.source)
           nodes1 == IF sid # f.node_id /\ sid \notin DOMAIN nodes
                     THEN AddNode(nodes, sid, PlaceholderAttrs(rel.source))
                     ELSE nodes
           parent == [f EXCEPT !.phase = "target", !.rels = Tail(f.rels)]
       IN /\ nodes' = nodes1
          /\ IF sid # f.node_id /\ sid \notin visited
                /\ Cardinality(DOMAIN nodes1) < call.opts.max_nodes
             THEN FetchAndRecurse(rel.source, parent, f.depth)
             ELSE NoFetch(parent)
    /\ UNCHANGED <<cluster, fault, registry, resolved, probe, crd_mapping,
                   call, builds, first, edges,
                   visited, pod_templates, permission_errors, stats, nsloop, processed,
                   invoked>>

Next ==
    \/ \E seed \in Seeds, d \in 0..MaxDepth, o \in OptionChoices :
           BuildFromResource(seed, d, o)
    \/ \E d \in 0..MaxDepth, o \in OptionChoices : BuildNamespaceGraph("default", d, o)
    \/ NsNextKind
    \/ NsNextResource
    \/ NsFinish
    \/ Enter
    \/ RelTarget
    \/ RelSource

Spec == Init /\ [][Next]_vars

\* ------------------------------------------------- a builder used again
\* Builds called one after the other on the same builder, over the same cluster.
Ended == status \in {"done", "raised"}

ReuseOptions == {Options(DefaultMaxNodes, TRUE, TRUE, TRUE), Options(2, TRUE, TRUE, TRUE)}
ReuseSeeds == {IdOfResource(Dep), IdOfResource(PodOf(1))}

ReuseInit ==
    /\ cluster = ClusterOf(1, FALSE)
    /\ fault \in {[mode |-> "none", id |-> NoId], [mode |-> "raise", id |-> IdOfResource(RS)]}
    /\ registry = DefaultRegistry
    /\ resolved = <<>>
    /\ probe = <<>>
    /\ crd_mapping = <<>>
    /\ BuilderInit

\* A later build_from_resource or build_namespace_graph call on the builder
RebuildFromResource(seed, depth, opts) ==
    Ended /\ builds < MaxBuilds /\ StartFromResource(seed, depth, opts)

RebuildNamespaceGraph(ns, depth, opts) ==
    Ended /\ builds < MaxBuilds /\ StartNamespaceGraph(ns, depth, opts)

ReuseNext ==
    \/ \E seed \in ReuseSeeds, d \in 1..MaxDepth, o \in ReuseOptions :
           BuildFromResource(seed, d, o) \/ RebuildFromResource(seed, d, o)
    \/ BuildNamespaceGraph("default", 1, Options(DefaultMaxNodes, TRUE, TRUE, TRUE))
    \/ RebuildNamespaceGraph("default", 1, Options(DefaultMaxNodes, TRUE, TRUE, TRUE))
    \/ NsNextKind
    \/ NsNextResource
    \/ NsFinish
    \/ Enter
    \/ RelTarget
    \/ RelSource

ReuseSpec == ReuseInit /\ [][ReuseNext]_vars

\* ------------------------------------------------- the registry on its own
\* A registry filled by register calls and asked for the discoverers of a
\* resource; no build runs.
builderVars == <<call, status, error, nodes, edges, visited, pod_templates,
                 permission_errors, stats, stack, nsloop, apiCalls, processed, denied,
                 invoked, builds, first>>

RegNames == {"native", "cert_manager"}
RegPriorities == {10, DefaultPriority, 100}
RegKinds == {None, "Certificate"}
RegResources == {Cert, PodOf(1)}

RegistryInit ==
    /\ cluster = ClusterOf(1, FALSE)
    /\ fault = [mode |-> "none", id |-> NoId]
    /\ registry = EmptyRegistry
    /\ resolved = <<>>
    /\ probe = <<>>
    /\ crd_mapping = <<>>
    /\ BuilderInit

\* registry.register(discoverer) or registry.register(discoverer, resource_kind=kind)
Register(name, priority, kind) ==
    /\ RegistrySize(registry) < MaxRegs
    /\ registry' = register(registry, name, priority, kind)
    /\ UNCHANGED <<cluster, fault, resolved, probe, crd_mapping, builderVars>>

\* registry.get_discoverers_for_resource(resource)
Resolve(r) ==
    /\ resolved' = <<[res |-> r, reg |-> registry,
                       out |-> get_discoverers_for_resource(registry, r)]>>
    /\ UNCHANGED <<cluster, fault, registry, probe, crd_mapping, builderVars>>

RegistryNext ==
    \/ \E name \in RegNames, priority \in RegPriorities, kind \in RegKinds :
           Register(name, priority, kind)
    \/ \E r \in RegResources : Resolve(r)

RegistrySpec == RegistryInit /\ [][RegistryNext]_vars

\* ------------------------------------------- discoverers called directly
\* One supports or discover call of one discoverer on a resource body, as the
\* discoverer tests make it; no build runs.
ListOf(S) == {Absent, Null, Present(<<>>)} \cup {Present(<<x>>) : x \in S}

\* Pod bodies: every state of spec.volumes, of a volume's configMap, secret and
\* persistentVolumeClaim, of spec.containers and spec.initContainers, of a
\* container's envFrom and env, and of an env entry's valueFrom.
PodBodies ==
    LET Refs == {Absent, Null, Present(<<"cfg">>)}
        VolumeChoices ==
            {[configMap |-> a, secret |-> b, persistentVolumeClaim |-> c] :
                a \in Refs \cup {Present(<<>>)}, b \in Refs, c \in Refs}
        EnvFromChoices ==
            {[configMapRef |-> Present(<<"cfg">>), secretRef |-> Null],
             [configMapRef |-> Absent, secretRef |-> Present(<<"tls">>)]}
        EnvChoices ==
            {[valueFrom |-> v] :
                v \in {Absent, Null, Present(<<>>),
                       Present(<<[configMapKeyRef |-> Present(<<"cfg">>),
                                  secretKeyRef |-> Null]>>)}}
        ContainerChoices ==
            {[envFrom |-> a, env |-> b] : a \in ListOf(EnvFromChoices), b \in ListOf(EnvChoices)}
        InitChoices ==
            {Absent, Null,
             Present(<<[envFrom |-> Null, env |-> Present(<<[valueFrom |-> Absent]>>)]>>)}
    IN {[Resource("Pod", "probe") EXCEPT !.volumes = v, !.containers = c,
                                         !.initContainers = i] :
           v \in ListOf(VolumeChoices), c \in ListOf(ContainerChoices), i \in InitChoices}

\* Resource bodies differing in kind, apiVersion, metadata.labels and
\* metadata.annotations, each absent, null or present.
MetaBodies ==
    {[Resource(k, "probe") EXCEPT !.apiVersion = v, !.labels = l, !.annotations = a] :
        k \in {"Pod", "Deployment", "Service", "Certificate", "ScaledObject", "Composition",
               "Application", "Airflow"},
        v \in {"", None, "v1", "cert-manager.io/v1", "keda.sh/v1alpha1",
               "apiextensions.crossplane.io/v1"},
        l \in {Absent, Null, Present(<<>>), Present(<<<<"component", "temporal-worker">>>>),
               Present(<<<<"app.kubernetes.io/managed-by", "Helm">>>>)},
        a \in {Absent, Null, Present(<<>>), Present(<<"meta.helm.sh/release-name">>),
               Present(<<"crossplane.io/claim-name">>)}}

\* Resource bodies for discover: the cluster's resources, a resource without a
\* name, and ScaledObjects with each state of scaleTargetRef and triggers.
DiscoverBodies ==
    LET ScaledBodies ==
            {[Resource("ScaledObject", "scaler") EXCEPT
                 !.apiVersion = "keda.sh/v1alpha1", !.scaleTargetRef = t, !.triggers = g] :
                t \in {Absent, Null, Present(<<[kind |-> "Deployment", name |-> "web"]>>),
                       Present(<<[kind |-> "deployment", name |-> "web"]>>)},
                g \in ListOf({[metadata |-> m] :
                        m \in {Absent, Null,
                               Present(<<[configMapName |-> "cfg", secretName |-> None]>>)}})}
    IN {Dep, RS, PodOf(1), Cfg, Cert, CertBad, Ing} \cup ScaledBodies \cup PodBodies

\* The cluster the discoverers look into: a ReplicaSet owning a Pod that is
\* listed without a name after one with a name.
ProbeCluster ==
    <<Dep, RS, PodOf(1), [PodOf(2) EXCEPT !.name = None], Cfg, Cert, CertBad, Ing>>

\* Resource bodies for node identity: Pods and other kinds, with and without
\* owner references and pod-template-hash label, namespaced and cluster-scoped.
IdentityBodies ==
    {[Resource(k, n) EXCEPT !.namespace = ns, !.owners = o, !.hash = h] :
        k \in {"Pod", "ReplicaSet", "ConfigMap"}, n \in {"web-h1-a", "web-h1-b"},
        ns \in {"default", "prod", None},
        o \in {<<>>, <<OwnerRef("ReplicaSet", "web-h1")>>,
               <<OwnerRef("ReplicaSet", "web-h1"), OwnerRef("Job", "batch")>>},
        h \in {None, "h1", "h2"}}

\* The client of the discoverer: working, absent, or raising on one call
ProbeFaults ==
    {[mode |-> "none", id |-> NoId], [mode |-> "absent", id |-> NoId],
     [mode |-> "raise", id |-> IdOfResource(Dep)],
     [mode |-> "raise_list", id |-> RID("Pod", None, None)],
     [mode |-> "raise_list", id |-> RID("Ingress", None, None)]}

ProbeInit ==
    /\ cluster = ProbeCluster
    /\ fault \in ProbeFaults
    /\ registry = DefaultRegistry
    /\ resolved = <<>>
    /\ probe = <<>>
    /\ crd_mapping = <<>>
    /\ BuilderInit

\* discoverer.supports(resource)
CallSupports(d, r) ==
    /\ probe' = <<[op |-> "supports", d |-> d, res |-> r,
                   raised |-> supports(d, r).raised, value |-> supports(d, r).value,
                   rels |-> <<>>, calls |-> [get |-> 0, list |-> 0],
                   id |-> None, template |-> None]>>
    /\ UNCHANGED <<cluster, fault, registry, resolved, crd_mapping, builderVars>>

\* await discoverer.discover(resource)
CallDiscover(d, r) ==
    /\ probe' = <<[op |-> "discover", d |-> d, res |-> r,
                   raised |-> Discover(d, r).raised, value |-> FALSE,
                   rels |-> Discover(d, r).rels, calls |-> DiscovererCalls(d, r),
                   id |-> None, template |-> None]>>
    /\ UNCHANGED <<cluster, fault, registry, resolved, crd_mapping, builderVars>>

\* NodeIdentity().get_node_id(resource) and get_pod_template_id(resource)
CallIdentity(r) ==
    /\ probe' = <<[op |-> "identity", d |-> None, res |-> r,
                   raised |-> get_node_id(r) = IdentityError, value |-> FALSE,
                   rels |-> <<>>, calls |-> [get |-> 0, list |-> 0],
                   id |-> get_node_id(r), template |-> get_pod_template_id(r)]>>
    /\ UNCHANGED <<cluster, fault, registry, resolved, crd_mapping, builderVars>>

\* One call is made on each discoverer under test
ProbeNext ==
    \/ probe = <<>> /\ \E d \in HandlerNames, r \in MetaBodies : CallSupports(d, r)
    \/ probe = <<>> /\ \E d \in {"native", "cert_manager", "keda"}, r \in DiscoverBodies :
                            CallDiscover(d, r)
    \/ probe = <<>> /\ \E r \in IdentityBodies : CallIdentity(r)

ProbeSpec == ProbeInit /\ [][ProbeNext]_vars

\* ------------------------------------------------------------ CRD registry
\* CRDRegistry: _crd_mapping is the sequence of its [kind, info] items in
\* insertion order; an info dict is the sequence of its <<key, value>> items.
\* A handler is given by the methods it has, what get_crd_kinds returns, the
\* calls that raise and what get_crd_info returns per kind (None by default).

\* "if crd_info and all(k in crd_info for k in ['group', 'version', 'plural'])"
Storable(info) ==
    /\ info.st = "present" /\ info.val # <<>>
    /\ {"group", "version", "plural"} \subseteq {info.val[i][1] : i \in 1..Len(info.val)}

\* CRDRegistry.list_registered_kinds and CRDRegistry.get_crd_info
list_registered_kinds(m) == [i \in 1..Len(m) |-> m[i].kind]
get_crd_info(m, kind) ==
    IF \E i \in 1..Len(m) : m[i].kind = kind
    THEN Present((CHOOSE e \in Range(m) : e.kind = kind).info)
    ELSE Null

\* "if kind in self._crd_mapping: ... (keeping existing) else: store"
StoreOverwriting(m, kind, info) ==
    IF \E i \in 1..Len(m) : m[i].kind = kind
    THEN [i \in 1..Len(m) |-> IF m[i].kind = kind THEN [kind |-> kind, info |-> info]
                                ELSE m[i]]
    ELSE Append(m, [kind |-> kind, info |-> info])
Store(m, kind, info) ==
    IF \E i \in 1..Len(m) : m[i].kind = kind THEN m
    ELSE Append(m, [kind |-> kind, info |-> info])

\* The loop over crd_kinds; an exception of get_crd_info ends it
RECURSIVE RegisterKinds(_, _, _)
RegisterKinds(kinds, h, m) ==
    IF kinds = <<>> THEN [m |-> m, exc |-> FALSE]
    ELSE LET kind == Head(kinds)
             info == Lookup(h.info, kind, Null)
         IN IF kind \in h.raises THEN [m |-> m, exc |-> TRUE]
            ELSE RegisterKinds(Tail(kinds), h,
                               IF Storable(info) THEN Store(m, kind, info.val) ELSE m)

\* CRDRegistry.register_handler: "except Exception" logs a warning and returns
register_handler(m, h) ==
    IF ~({"get_crd_kinds", "get_crd_info"} \subseteq h.methods)
    THEN [m |-> m, raised |-> FALSE, warned |-> FALSE]
    ELSE IF "get_crd_kinds" \in h.raises
    THEN [m |-> m, raised |-> FALSE, warned |-> TRUE]
    ELSE LET out == RegisterKinds(h.kinds, h, m)
         IN [m |-> out.m, raised |-> FALSE, warned |-> out.exc]

\* The KEDA and cert-manager handlers, a handler with BaseCRDHandler's
\* defaults, objects lacking one or both methods, a handler naming kinds of the
\* other handlers with other info, one whose infos are incomplete, one whose
\* get_crd_kinds raises and one whose get_crd_info raises at its second kind
CRDHandlers ==
    LET Info(g, v, p) == Present(<<<<"group", g>>, <<"version", v>>, <<"plural", p>>>>)
        Both == {"get_crd_kinds", "get_crd_info"}
        H(n, ms, ks, rs, inf) ==
            [name |-> n, methods |-> ms, kinds |-> ks, raises |-> rs, info |-> inf]
    IN {H("keda", Both, <<"ScaledObject", "ScaledJob">>, {},
          <<<<"ScaledObject", Info("keda.sh", "v1alpha1", "scaledobjects")>>,
            <<"ScaledJob", Info("keda.sh", "v1alpha1", "scaledjobs")>>>>),
        H("cert_manager", Both,
          <<"Certificate", "Issuer", "ClusterIssuer", "CertificateRequest">>, {},
          <<<<"Certificate", Info("cert-manager.io", "v1", "certificates")>>,
            <<"Issuer", Info("cert-manager.io", "v1", "issuers")>>,
            <<"ClusterIssuer", Info("cert-manager.io", "v1", "clusterissuers")>>,
            <<"CertificateRequest", Info("cert-manager.io", "v1", "certificaterequests")>>>>),
        H("helm", Both, <<>>, {}, <<>>),
        H("plain", {}, <<>>, {}, <<>>),
        H("kinds_only", {"get_crd_kinds"}, <<"Widget">>, {},
          <<<<"Widget", Info("example.io", "v1", "widgets")>>>>),
        H("rival", Both, <<"Certificate", "ScaledObject", "Widget">>, {},
          <<<<"Certificate", Info("certs.example.io", "v2", "certs")>>,
            <<"ScaledObject", Info("scale.example.io", "v2", "scaledobjects")>>,
            <<"Widget", Info("example.io", "v1", "widgets")>>>>),
        H("incomplete", Both, <<"Gadget", "Gizmo", "Sprocket", "Widget">>, {},
          <<<<"Gadget", Present(<<<<"group", "example.io">>, <<"version", "v1">>>>)>>,
            <<"Sprocket", Present(<<>>)>>,
            <<"Widget", Info("other.io", "v1beta1", "widgets")>>>>),
        H("failing", Both, <<"Gadget">>, {"get_crd_kinds"},
          <<<<"Gadget", Info("example.io", "v1", "gadgets")>>>>),
        H("half", Both, <<"Gadget", "Gizmo", "Sprocket">>, {"Gizmo"},
          <<<<"Gadget", Info("example.io", "v1", "gadgets")>>,
            <<"Sprocket", Info("example.io", "v1", "sprockets")>>>>)}

\* A fresh CRDRegistry
CRDInit ==
    /\ cluster = ClusterOf(0, FALSE)
    /\ fault = [mode |-> "none", id |-> NoId]
    /\ registry = DefaultRegistry
    /\ resolved = <<>>
    /\ probe = <<>>
    /\ crd_mapping = <<>>
    /\ BuilderInit

\* A register_handler call; probe keeps the call and the mapping it found
RegisterHandler(h) ==
    /\ crd_mapping' = register_handler(crd_mapping, h).m
    /\ probe' = <<[op |-> "register_handler", handler |-> h,
                   raised |-> register_handler(crd_mapping, h).raised,
                   before |-> crd_mapping]>>
    /\ UNCHANGED <<cluster, fault, registry, resolved, builderVars>>

\* CRDRegistry.clear
Clear ==
    /\ crd_mapping' = <<>>
    /\ probe' = <<[op |-> "clear", handler |-> None, raised |-> FALSE,
                   before |-> crd_mapping]>>
    /\ UNCHANGED <<cluster, fault, registry, resolved, builderVars>>

CRDNext ==
    \/ \E h \in CRDHandlers : RegisterHandler(h)
    \/ Clear

CRDSpec == CRDInit /\ [][CRDNext]_vars

\* ------------------------------------------------------------------ claims
InCluster(r) == r \in Range(cluster)
IdStr(id) == get_node_id_from_identifier(id)
Done == status = "done"
FromResource(r) == call.op = "resource" /\ call.seed = IdOfResource(r)

\* C1: the graph a build returns has at most max_nodes nodes.
C1_NodeCeiling == Done => NodeCount <= call.opts.max_nodes

\* C2: build_from_resource on an identifier the fetch finds nothing for returns
\* the empty graph, raises nothing, starts no expansion, runs no discovery and
\* makes no call beyond the one fetch of the seed.
SeedMissing == call.op = "resource" /\ get_resource(call.seed).tag = "none"

C2_MissingSeedEmpty ==
    SeedMissing =>
        /\ status = "done" /\ error = None
        /\ NodeCount = 0 /\ DOMAIN edges = {}
        /\ stack = <<>> /\ stats.discoveries = 0
        /\ apiCalls = [get |-> 1, list |-> 0]

C2_Witness == SeedMissing /\ Done /\ InCluster(Dep)

\* C3: Deployment -> ReplicaSet -> n >= 1 Pods of one template hash, built from
\* the Deployment at depth 2: exactly 3 nodes and sampled_count = 1.
C3_ThreeNodes ==
    (/\ Done /\ FromResource(Dep) /\ call.depth = 2
     /\ call.opts.max_nodes = DefaultMaxNodes /\ fault.mode = "none"
     /\ InCluster(PodOf(1)))
    => /\ NodeCount = 3
       /\ get_pod_sampling_info.sampled_count = 1

\* C4: a get_resource that raises for a relationship endpoint during the
\* recursion does not make the build raise.
C4_EndpointFetchFailureCaught ==
    ~(status = "raised" /\ error = "FetchError" /\ stack # <<>>)

\* C5: a permission error for an identifier leaves the build running to its end
\* and an entry for the identifier in get_permission_errors().
C5_PermissionErrorsRecorded ==
    \A id \in denied :
        /\ status # "raised"
        /\ \E i \in DOMAIN get_permission_errors : get_permission_errors[i] = IdStr(id)

\* C6: a resource whose node identity cannot be derived is skipped; the build
\* does not raise.
C6_IdentityFailureSkipped == ~(status = "raised" /\ error = IdentityError)

\* C7 (as claimed): when B's ownerReferences name A, a build seeded at either
\* with depth >= 1, no fetch failing and the ceiling not reached contains the
\* other's node, whatever A's kind.
Owns(a, b) == HasOwner(b, a.kind, a.name) /\ a.namespace = b.namespace
HasNodeOf(r) == get_node_id(r) \in DOMAIN nodes
ReachCase ==
    /\ Done /\ call.op = "resource" /\ call.depth >= 1
    /\ fault.mode = "none" /\ NodeCount < call.opts.max_nodes

KeyOf(p) == <<p.at, IdStr(p.rel.target)>>
Folded(key) == {i \in 1..Len(processed) : KeyOf(processed[i]) = key}
Min(S) == CHOOSE x \in S : \A y \in S : x <= y
Max(S) == CHOOSE x \in S : \A y \in S : x >= y
AttrsOf(rel) == [relationship_type |-> rel.relationship_type, details |-> rel.details]

\* The node of a folded relationship's source: the node being expanded when the
\* source is the expanded resource, the identifier's node otherwise.
SourceNode(p) == IF p.rel.source = p.self THEN p.at ELSE IdStr(p.rel.source)
SourceKey(p) == <<SourceNode(p), IdStr(p.rel.target)>>

\* C8: every folded relationship r has the edge node(r.source) -> node(r.target)
\* with r's type, also when r.source is not the resource being expanded; every
\* edge is node(r.source) -> node(r.target) of a folded r; no edge is a self-loop.
C8_EdgesKeyedBySource ==
    Done =>
    /\ \A i \in 1..Len(processed) :
          /\ SourceKey(processed[i]) \in DOMAIN edges
          /\ \E j \in 1..Len(processed) :
                /\ SourceKey(processed[j]) = SourceKey(processed[i])
                /\ edges[SourceKey(processed[i])] = AttrsOf(processed[j].rel)
    /\ \A e \in DOMAIN edges :
          /\ e[1] # e[2]
          /\ \E i \in 1..Len(processed) : e = SourceKey(processed[i])

\* C9: the graph has exactly one edge for every ordered node pair a
\* relationship was folded under, however often that pair was discovered:
\* the edge count is the number of distinct pairs.
C9_OneEdgePerPair ==
    /\ DOMAIN edges = {KeyOf(processed[i]) : i \in 1..Len(processed)}
    /\ Cardinality(DOMAIN edges)
         = Cardinality({KeyOf(processed[i]) : i \in 1..Len(processed)})

C9_Witness ==
    /\ Done
    /\ \E i, j \in 1..Len(processed) :
          i < j /\ KeyOf(processed[i]) = KeyOf(processed[j])
          /\ KeyOf(processed[i]) \in DOMAIN edges

\* C10 (as claimed): an edge carries the type and details of the relationship
\* most recently folded under its node pair.
C10_LastWins ==
    \A e \in DOMAIN edges :
        Folded(e) # {} => edges[e] = AttrsOf(processed[Max(Folded(e))].rel)

\* C10 (amended): an edge carries the type and details of the relationship
\* first folded under its node pair; later ones for the pair change nothing.
C10_FirstWins ==
    \A e \in DOMAIN edges :
        /\ Folded(e) # {}
        /\ edges[e] = AttrsOf(processed[Min(Folded(e))].rel)

C10_Witness ==
    \E e \in DOMAIN edges :
        /\ Cardinality(Folded(e)) >= 2
        /\ AttrsOf(processed[Max(Folded(e))].rel) # AttrsOf(processed[Min(Folded(e))].rel)
        /\ edges[e] = AttrsOf(processed[Min(Folded(e))].rel)

\* C11: for every resource with ownerReferences the native discoverer emits,
\* for each owner reference, a relationship of type OWNED whose source is the
\* owner and whose target is the resource itself.
C11_OwnerIsSource ==
    \A i \in 1..Len(invoked) : \A j \in 1..Len(invoked[i].runs) :
        LET r == invoked[i].res
            run == invoked[i].runs[j]
        IN (run.d = "native" /\ ~run.out.raised) =>
              \A o \in Range(r.owners) :
                  \E rel \in Range(run.out.rels) :
                      /\ rel.relationship_type = "owned"
                      /\ rel.source = RID(o.kind, o.name, r.namespace)
                      /\ rel.target = IdOfResource(r)

\* The wildcard name of a selector of one or two labels, written out
WildcardName(sel) ==
    IF Len(sel) = 1 THEN "*[" \o sel[1][1] \o "=" \o sel[1][2] \o "]"
    ELSE "*[" \o sel[1][1] \o "=" \o sel[1][2] \o "," \o sel[2][1] \o "=" \o sel[2][2] \o "]"

\* A Pod of the cluster carrying the labels of the Service's selector
Label(p, key) == IF key = "app" THEN p.app ELSE IF key = "pod-template-hash" THEN p.hash ELSE None
MatchingPodExists(svc) ==
    \E p \in Range(cluster) :
        p.kind = "Pod" /\ \A k \in 1..Len(svc.selector) :
                              Label(p, svc.selector[k][1]) = svc.selector[k][2]

\* C12: for a Service with a non-empty selector the native discoverer emits
\* exactly one LABEL_SELECTOR relationship, from the Service to the wildcard
\* Pod identifier '*[k1=v1,...]' in the Service's namespace, with no fetch and
\* whether or not a matching Pod exists; with an empty selector it emits none.
C12_ServiceSelector ==
    \A i \in 1..Len(invoked) : \A j \in 1..Len(invoked[i].runs) :
        LET r == invoked[i].res
            run == invoked[i].runs[j]
            sel == SelectSeq(run.out.rels,
                             LAMBDA rel : rel.relationship_type = "label_selector")
        IN (run.d = "native" /\ r.kind = "Service") =>
              /\ ~run.out.raised
              /\ run.calls = [get |-> 0, list |-> 0]
              /\ IF r.selector = <<>> THEN sel = <<>>
                 ELSE /\ Len(sel) = 1
                      /\ sel[1].source = IdOfResource(r)
                      /\ sel[1].target = RID("Pod", WildcardName(r.selector), r.namespace)

C12_Witness ==
    /\ ~MatchingPodExists(Svc)
    /\ \E i \in 1..Len(invoked) :
          /\ invoked[i].res = Svc
          /\ \E rel \in Range(invoked[i].rels) :
                rel.target.name = "*[app=web,pod-template-hash=h1]"

\* The registrations behind a resolution q: the general discoverers that
\* support the resource, the overrides of its kind that support it
GeneralSet(q) == {e \in Range(q.reg.general) : Supports(e.name, q.res)}
OverrideSet(q) ==
    {o.entry : o \in {x \in Range(q.reg.overrides) :
                        x.kind = q.res.kind /\ Supports(x.entry.name, q.res)}}
OverridesOfKind(q) == {o \in Range(q.reg.overrides) : o.kind = q.res.kind}

\* C13: get_discoverers_for_resource returns the discoverers by priority
\* descending, and discoverers of equal priority in their registration order.
C13_PrioritySorted ==
    \A q \in Range(resolved) :
        \A i, j \in 1..Len(q.out) :
            i < j => \/ q.out[i].priority > q.out[j].priority
                     \/ /\ q.out[i].priority = q.out[j].priority
                        /\ q.out[i].seq < q.out[j].seq

C13_Witness ==
    \E q \in Range(resolved) :
        /\ Len(q.out) = 3
        /\ q.out[1].priority > q.out[2].priority
        /\ q.out[2].priority = q.out[3].priority
        /\ q.out[1].seq > q.out[3].seq

\* C14 (as claimed): the result is the union of the supporting general
\* discoverers and the supporting overrides of the resource's kind; an override
\* never removes a supporting general discoverer.
C14_UnionOfGeneralAndOverrides ==
    \A q \in Range(resolved) : Range(q.out) = GeneralSet(q) \cup OverrideSet(q)

\* C14 (amended): the result is the supporting overrides of the resource's kind
\* when there is one, the general discoverers left out; it is the supporting
\* general discoverers when no override is registered for the kind.
C14_OverridesElseGeneral ==
    \A q \in Range(resolved) :
        /\ OverrideSet(q) # {} => Range(q.out) = OverrideSet(q)
        /\ OverridesOfKind(q) = {} => Range(q.out) = GeneralSet(q)
        /\ Len(q.out) = Cardinality(Range(q.out))

C14_Witness ==
    \E q \in Range(resolved) :
        /\ GeneralSet(q) # {} /\ Cardinality(OverrideSet(q)) = 2
        /\ Len(q.out) = 2 /\ Range(q.out) = OverrideSet(q)

\* C15: when a general discoverer and an override of the resource's kind both
\* support the resource, the result holds the overrides only: exactly the
\* override when there is one.
C15_OverrideReplacesGeneral ==
    \A q \in Range(resolved) :
        (GeneralSet(q) # {} /\ OverrideSet(q) # {}) =>
            /\ Range(q.out) \cap GeneralSet(q) = {}
            /\ Range(q.out) \subseteq OverrideSet(q)
            /\ Cardinality(OverrideSet(q)) = 1 => Len(q.out) = 1

C15_Witness ==
    \E q \in Range(resolved) :
        /\ q.res = Cert
        /\ \E e \in GeneralSet(q) : e.name = "native"
        /\ Cardinality(OverrideSet(q)) = 1
        /\ Len(q.out) = 1 /\ q.out[1] \in OverrideSet(q)

\* The relationships of the runs that did not raise, in order, and the number
\* of runs that raised
RECURSIVE RelsOfRuns(_)
RelsOfRuns(runs) ==
    IF runs = <<>> THEN <<>>
    ELSE (IF Head(runs).out.raised THEN <<>> ELSE Head(runs).out.rels)
         \o RelsOfRuns(Tail(runs))
FailedRuns(runs) == Cardinality({j \in 1..Len(runs) : runs[j].out.raised})
RECURSIVE ErrorsOfCalls(_)
ErrorsOfCalls(calls) ==
    IF calls = <<>> THEN 0 ELSE FailedRuns(Head(calls).runs) + ErrorsOfCalls(Tail(calls))
RanIn(c, name) == \E j \in 1..Len(c.runs) : c.runs[j].d = name

\* C16: in every discover_all_relationships call each applicable discoverer
\* runs, also after one that raised; the call returns the concatenation of the
\* relationships of the discoverers that did not raise and counts one error per
\* discoverer that raised; no build ends with a discoverer's exception.
C16_DiscovererIsolation ==
    /\ \A i \in 1..Len(invoked) :
          LET c == invoked[i] IN
          /\ \A e \in Range(registry.general) :
                (Supports(e.name, c.res) /\ CategoryEnabled(Category(e.name), call.opts))
                    => RanIn(c, e.name)
          /\ c.rels = RelsOfRuns(c.runs)
          /\ c.errors = FailedRuns(c.runs)
    /\ stats.errors = ErrorsOfCalls(invoked)
    /\ status = "raised" => error \in {"FetchError", "PermissionError", IdentityError}

C16_Witness ==
    /\ Done
    /\ \E i \in 1..Len(invoked) :
          LET c == invoked[i] IN
          /\ c.res = CertBad /\ Len(c.runs) = 2
          /\ c.runs[1].d = "native" /\ c.runs[1].out.raised
          /\ c.runs[2].d = "cert_manager" /\ c.runs[2].out.rels # <<>>
          /\ c.rels = c.runs[2].out.rels /\ c.errors = 1
          /\ \E k \in 1..Len(processed) : processed[k].rel = c.rels[1]

\* C17: during a build whose options switch a category off (include_rbac,
\* include_network, include_crds) no discoverer of that category (RBAC,
\* NETWORK, CRD) has discover invoked at any expansion step, while the
\* supporting discoverers of every other category are invoked.
Disabled(opts) ==
    (IF opts.include_rbac THEN {} ELSE {"RBAC"})
    \cup (IF opts.include_network THEN {} ELSE {"NETWORK"})
    \cup (IF opts.include_crds THEN {} ELSE {"CRD"})

C17_CategoryGating ==
    \A i \in 1..Len(invoked) :
        LET c == invoked[i] IN
        /\ \A j \in 1..Len(c.runs) : Category(c.runs[j].d) \notin Disabled(call.opts)
        /\ \A e \in Range(registry.general) :
              (Supports(e.name, c.res) /\ Category(e.name) \notin Disabled(call.opts))
                  => RanIn(c, e.name)

C17_Witness ==
    /\ Done /\ FromResource(Cert)
    /\ Disabled(call.opts) = {"CRD"}
    /\ Len(invoked) >= 1 /\ invoked[1].res = Cert
    /\ RanIn(invoked[1], "native") /\ ~RanIn(invoked[1], "cert_manager")

\* C18: a build on a builder that ran earlier builds returns what the same
\* build returned on the fresh builder (nodes, edges, pod sampling info,
\* permission errors, outcome), and every build starts from an empty graph, no
\* visited entry, no pod-template record and zeroed counters.
StartsFresh ==
    builds' = builds + 1 =>
        /\ nodes' = EmptyMap /\ edges' = EmptyMap /\ visited' = {}
        /\ pod_templates' = EmptyMap /\ permission_errors' = <<>>
        /\ stats' = [discoveries |-> 0, errors |-> 0, total_relationships |-> 0]

C18_BuildsIndependent ==
    /\ []((Ended /\ builds >= 2 /\ call = first.call) => Returned = first.returned)
    /\ [][StartsFresh]_vars

C18_Witness ==
    /\ builds = MaxBuilds /\ Done /\ call = first.call
    /\ FromResource(PodOf(1)) /\ call.depth = 1
    /\ NodeCount >= 2 /\ get_pod_sampling_info.sampled_count = 1
    /\ apiCalls.list >= 1

\* The work a build has left, counted from the remaining depth alone: a call
\* at depth d folds at most MaxRels relationships, each with two halves and at
\* most two calls at depth d - 1; the namespace loops add one call per listed
\* resource.
MaxRels == MaxPods + 1
MaxList == MaxPods + 2

RECURSIVE CallWork(_)
CallWork(d) == IF d <= 0 THEN 1 ELSE 1 + MaxRels * (2 + 2 * CallWork(d - 1))

FrameWork(f) ==
    IF f.phase = "enter" THEN CallWork(f.depth)
    ELSE IF f.phase = "target" THEN Len(f.rels) * (2 + 2 * CallWork(f.depth - 1))
    ELSE (Len(f.rels) - 1) * (2 + 2 * CallWork(f.depth - 1)) + 1 + CallWork(f.depth - 1)

RECURSIVE StackWork(_)
StackWork(stk) == IF stk = <<>> THEN 0 ELSE FrameWork(Head(stk)) + StackWork(Tail(stk))

LoopWork ==
    IF call.op # "namespace" THEN 0
    ELSE Len(nsloop.kinds) * (1 + MaxList * (1 + CallWork(call.depth)))
         + Len(nsloop.pending) * (1 + CallWork(call.depth))

WorkLeft == IF status # "running" THEN 0 ELSE 1 + StackWork(stack) + LoopWork

\* A running build has a next step: a frame to continue, or the namespace loops
CanStep ==
    \/ stack # <<>> /\ (Top.phase \in {"enter", "source"} \/ Top.rels # <<>>)
    \/ stack = <<>> /\ call.op = "namespace"

\* C19: every build ends (returns, or propagates an exception): a running build
\* always has a next step, every step leaves less work, the work being bounded
\* by the remaining depth, which decreases by one per recursive call and never
\* falls below zero; cyclic relationships do not prolong it.
DepthDecreases ==
    /\ \A i \in 1..Len(stack) : stack[i].depth >= 0
    /\ \A i \in 1..(Len(stack) - 1) : stack[i + 1].depth = stack[i].depth - 1
    /\ Len(stack) <= call.depth + 1

C19_Terminates ==
    /\ [](status = "running" => CanStep /\ DepthDecreases)
    /\ [][status = "running" => WorkLeft' < WorkLeft]_vars

\* a build over cyclic relationships (Deployment owns ReplicaSet, ReplicaSet
\* owned by Deployment) at full depth that has returned
C19_Witness ==
    /\ Done /\ FromResource(Dep) /\ call.depth = MaxDepth
    /\ \E i, j \in 1..Len(processed) :
          /\ processed[i].rel.source = processed[j].rel.target
          /\ processed[i].rel.target = processed[j].rel.source
          /\ processed[i].rel.source # processed[i].rel.target

\* The nodes within d edge hops of a set of nodes, edge direction ignored
Neighbours(S) ==
    S \cup {n \in DOMAIN nodes :
               \E e \in DOMAIN edges : \/ e[1] \in S /\ e[2] = n
                                       \/ e[2] \in S /\ e[1] = n}
RECURSIVE WithinHops(_, _)
WithinHops(S, d) == IF d = 0 THEN S ELSE WithinHops(Neighbours(S), d - 1)

SeedFound == \E r \in Range(cluster) : IdOfResource(r) = call.seed
SeedResource == CHOOSE r \in Range(cluster) : IdOfResource(r) = call.seed
SeedNode == get_node_id(SeedResource)

\* C20: every node of the graph build_from_resource returns lies within depth
\* edge hops of the seed node, edge direction ignored; with depth 0 the graph is
\* the seed node alone, without edges, and no discovery was made.
C20_WithinDepthHops ==
    (Done /\ call.op = "resource" /\ SeedFound) =>
        /\ DOMAIN nodes \subseteq WithinHops({SeedNode}, call.depth)
        /\ call.depth = 0 =>
              /\ DOMAIN nodes = {SeedNode} /\ edges = EmptyMap
              /\ invoked = <<>> /\ stats.discoveries = 0

\* The direct calls made: supports, discover
Probes(op) == {i \in 1..Len(probe) : probe[i].op = op}

\* C21: NativeResourceDiscoverer.discover on a Pod returns a list and does not
\* raise, whichever of spec.volumes, a volume's configMap, secret and
\* persistentVolumeClaim, spec.containers, spec.initContainers, a container's
\* env and envFrom and an env entry's valueFrom are absent, null or present.
C21_PodNullTolerance ==
    \A i \in Probes("discover") :
        (probe[i].d = "native" /\ probe[i].res \in PodBodies) => ~probe[i].raised

\* C22: supports of every discoverer returns a boolean for every resource
\* body, also with metadata.labels, metadata.annotations or apiVersion absent
\* or null, raises nothing and calls the fetch collaborator not at all.
C22_SupportsTotal ==
    \A i \in Probes("supports") :
        /\ ~probe[i].raised
        /\ probe[i].value \in BOOLEAN
        /\ probe[i].calls = [get |-> 0, list |-> 0]

\* The relationships of a sequence, as a set
RelSet(rels) == {rels[j] : j \in 1..Len(rels)}

\* C23: discover of every built-in discoverer returns a list and propagates no
\* exception, whatever the resource body, with the client absent and with
\* client calls raising; a failed lookup leaves the relationships derived from
\* the body (owner references, KEDA triggers) in the result.
C23_DiscoverNeverRaises ==
    \A i \in Probes("discover") :
        /\ ~probe[i].raised
        /\ probe[i].d = "native"
              => RelSet(discover_owner_references(probe[i].res).rels)
                    \subseteq RelSet(probe[i].rels)
        /\ (probe[i].d = "keda" /\ CanExtract(probe[i].res)
               /\ probe[i].res.scaleTargetRef.st # "null"
               /\ probe[i].res.triggers.st # "null")
              => LET t == TriggerRels(OrEmpty(probe[i].res.triggers),
                                      IdOfResource(probe[i].res), <<>>)
                 IN ~t.raised => RelSet(t.rels) \subseteq RelSet(probe[i].rels)

\* A Pod carrying both signals: an owner reference and the template-hash label
IsTemplatePod(r) == r.kind = "Pod" /\ r.owners # <<>> /\ r.hash # None

\* C24: Pods of namespace ns whose first owner reference is {K, N} and whose
\* pod-template-hash label is H all get the node id "Pod:ns:K-N:H", whatever
\* their names, and the template id "ns:K:N:H"; a Pod lacking a signal, and
\* any other kind, has no template id.
C24_PodTemplateCollapse ==
    \A i \in Probes("identity") :
        LET p == probe[i].res IN
        /\ (IsTemplatePod(p) /\ p.namespace # None) =>
              /\ probe[i].id = "Pod:" \o p.namespace \o ":" \o p.owners[1].kind \o "-"
                                \o p.owners[1].name \o ":" \o p.hash
              /\ probe[i].template = p.namespace \o ":" \o p.owners[1].kind \o ":"
                                      \o p.owners[1].name \o ":" \o p.hash
              /\ \A q \in IdentityBodies :
                    (/\ IsTemplatePod(q) /\ q.namespace = p.namespace
                     /\ q.owners[1] = p.owners[1] /\ q.hash = p.hash)
                        => get_node_id(q) = probe[i].id
        /\ ~IsTemplatePod(p) => probe[i].template = None

\* a template Pod whose node id is also that of a Pod with another name
C24_Witness ==
    \E i \in Probes("identity") :
        /\ IsTemplatePod(probe[i].res) /\ probe[i].res.namespace = "default"
        /\ probe[i].id = "Pod:default:ReplicaSet-web-h1:h1"
        /\ probe[i].template = "default:ReplicaSet:web-h1:h1"
        /\ \E q \in IdentityBodies :
              q.name # probe[i].res.name /\ get_node_id(q) = probe[i].id

\* C25: for every resource that is not a Pod, get_node_id is
\* "kind:namespace:name" ("kind:cluster:name" without namespace), the id the
\* builder derives from the resource's identifier, so that the placeholder of
\* a relationship endpoint and the resource fetched later are one node: the
\* graph returned has no two nodes for one resource that is not a Pod.
C25_NonPodIdentity ==
    Done =>
        /\ \A r \in Range(cluster) :
              (r.kind # "Pod" /\ r.name # None) =>
                  /\ get_node_id(r) = r.kind \o ":" \o NsPart(r.namespace) \o ":" \o r.name
                  /\ get_node_id(r) = get_node_id_from_identifier(IdOfResource(r))
        /\ \A m, n \in DOMAIN nodes :
              (/\ nodes[m].kind # "Pod" /\ nodes[m].kind = nodes[n].kind
               /\ nodes[m].name = nodes[n].name
               /\ nodes[m].namespace = nodes[n].namespace) => m = n

\* The resources the kind listings of a namespace build return, and the Pods
\* among them that template sampling skips (another Pod represents the template)
Listed ==
    {r \in Range(cluster) :
        r.namespace = call.namespace /\ r.kind \in Range(resource_kinds(call.opts))}
SkippedBySampling(r) ==
    /\ get_pod_template_id(r) # None
    /\ get_pod_template_id(r) \in DOMAIN pod_templates
    /\ pod_templates[get_pod_template_id(r)].name # r.name
Discovered(r) == \E i \in 1..Len(invoked) : invoked[i].res = r

\* C26: build_namespace_graph with depth >= 1 and the ceiling not reached
\* returns a graph with a node for every listed resource, Pods skipped by
\* sampling apart, and has discovered the relationships of each of them, also
\* of one first reached at remaining depth 0 as a relationship endpoint.
C26_NamespaceComplete ==
    (/\ Done /\ call.op = "namespace" /\ call.depth >= 1
     /\ NodeCount < call.opts.max_nodes)
    => \A r \in Listed :
          ~SkippedBySampling(r) => (get_node_id(r) \in DOMAIN nodes /\ Discovered(r))

\* C27: the seeding listings of build_namespace_graph are issued for a prefix of
\* the kinds list (the 17 base kinds, then Role and RoleBinding with
\* include_rbac, then NetworkPolicy and Ingress with include_network), one kind
\* after the other; a kind is listed only while the node count is below
\* max_nodes, the listing stops short of the end only at the ceiling, and no
\* top-level expansion starts once the node count has reached max_nodes.
C27_SeedingPrefix ==
    [][(call'.op = "namespace" /\ status' # "idle") =>
        LET all == resource_kinds(call'.opts)
            n == Len(BaseKinds)
            rbac == IF call'.opts.include_rbac THEN 2 ELSE 0
            net == IF call'.opts.include_network THEN 2 ELSE 0
            left == Len(nsloop'.kinds)
            seeding == status = "running" /\ stack = <<>>
        IN  /\ n = 17 /\ Len(all) = n + rbac + net /\ SubSeq(all, 1, n) = BaseKinds
            /\ rbac = 2 => SubSeq(all, n + 1, n + 2) = <<"Role", "RoleBinding">>
            /\ net = 2 => SubSeq(all, Len(all) - 1, Len(all)) = <<"NetworkPolicy", "Ingress">>
            /\ nsloop'.kinds = SubSeq(all, Len(all) - left + 1, Len(all))
            /\ (seeding /\ nsloop'.kinds # nsloop.kinds) =>
                  /\ nsloop'.kinds = Tail(nsloop.kinds)
                  /\ nsloop'.pending = list_resources(Head(nsloop.kinds), call.namespace)
                  /\ apiCalls'.list = apiCalls.list + 1
                  /\ NodeCount < call.opts.max_nodes
            /\ (seeding /\ apiCalls'.list # apiCalls.list) => nsloop'.kinds = Tail(nsloop.kinds)
            /\ (seeding /\ stack' # <<>>) => NodeCount < call.opts.max_nodes
            /\ (status' = "done" /\ nsloop'.kinds # <<>>) => NodeCount' >= call'.opts.max_nodes
      ]_vars

\* The ceiling ended the listings after the second kind, Role and Ingress unlisted
C27_Witness ==
    /\ Done /\ call.op = "namespace" /\ call.opts.include_rbac
    /\ nsloop.kinds # <<>> /\ Len(nsloop.kinds) = Len(resource_kinds(call.opts)) - 2
    /\ NodeCount >= call.opts.max_nodes

\* The resources _expand_from_node took past the ceiling and sampling tests
Expanded ==
    {r \in Range(cluster) :
        /\ get_node_id(r) # IdentityError /\ get_node_id(r) \in visited
        /\ ~SkippedBySampling(r)}

\* C28: in the returned graph the node of every fetched and expanded resource
\* carries what extract_node_attributes produces for it, also when a
\* placeholder for the node had been inserted first, and every node has a
\* non-null kind and name.
C28_FetchedNodesEnriched ==
    Done =>
    /\ \A r \in Expanded :
          /\ get_node_id(r) \in DOMAIN nodes
          /\ nodes[get_node_id(r)] = extract_node_attributes(r)
    /\ \A n \in DOMAIN nodes : nodes[n].kind # None /\ nodes[n].name # None

\* C29: within one build discover_all_relationships is invoked at most once per
\* node id, and only with remaining depth > 0 for a node not yet visited; every
\* member of visited is the id of a node of the graph; a call of
\* _expand_from_node on a visited node returns without adding a node or an edge
\* and without a discovery.
C29_DiscoverOncePerNode ==
    [][/\ visited' \subseteq DOMAIN nodes'
       /\ \A i, j \in 1..Len(invoked') :
             i # j => get_node_id(invoked'[i].res) # get_node_id(invoked'[j].res)
       /\ (status = "running" /\ invoked' # invoked) =>
             /\ stack # <<>> /\ Top.phase = "enter" /\ Top.depth > 0
             /\ get_node_id(Top.res) \notin visited
             /\ Len(invoked') = Len(invoked) + 1
             /\ invoked'[Len(invoked')].res = Top.res
       /\ (/\ status = "running" /\ stack # <<>> /\ Top.phase = "enter"
           /\ get_node_id(Top.res) \in visited) =>
             /\ nodes' = nodes /\ edges' = edges /\ invoked' = invoked
             /\ visited' = visited /\ Len(stack') < Len(stack)
      ]_vars

\* A second call of _expand_from_node, with depth left, on a node whose
\* relationships the build has already discovered
C29_Witness ==
    /\ status = "running" /\ stack # <<>> /\ Top.phase = "enter" /\ Top.depth > 0
    /\ get_node_id(Top.res) \in visited
    /\ \E i \in 1..Len(invoked) : invoked[i].res = Top.res

\* C30: a register_handler call never raises and never changes the info of a
\* kind already mapped, also when the handler gives other info for that kind;
\* it only appends entries, each with group, version and plural; a handler
\* lacking get_crd_kinds or get_crd_info leaves the registry unchanged; after
\* clear() list_registered_kinds() is empty.
C30_CRDRegistryStable ==
    [][LET last == probe'[1]
           old == crd_mapping
           new == crd_mapping'
       IN /\ ~last.raised
          /\ \A i \in 1..Len(new) :
                {"group", "version", "plural"}
                    \subseteq {new[i].info[j][1] : j \in 1..Len(new[i].info)}
          /\ \A i, j \in 1..Len(new) : i # j => new[i].kind # new[j].kind
          /\ last.op = "register_handler" =>
                /\ Len(old) <= Len(new) /\ SubSeq(new, 1, Len(old)) = old
                /\ \A i \in 1..Len(old) :
                      get_crd_info(new, old[i].kind) = Present(old[i].info)
                /\ ~({"get_crd_kinds", "get_crd_info"} \subseteq last.handler.methods)
                      => new = old
          /\ last.op = "clear" => list_registered_kinds(new) = <<>>
      ]_vars

\* The cert-manager handler came first; a later handler gave other info for
\* Certificate and a new kind: the entry of Certificate is the first one still
C30_Witness ==
    /\ probe # <<>> /\ probe[1].op = "register_handler" /\ probe[1].handler.name = "rival"
    /\ get_crd_info(probe[1].before, "Certificate") # Null
    /\ get_crd_info(crd_mapping, "Certificate") = get_crd_info(probe[1].before, "Certificate")
    /\ get_crd_info(crd_mapping, "Certificate") # Lookup(probe[1].handler.info, "Certificate", Null)
    /\ get_crd_info(probe[1].before, "Widget") = Null
    /\ get_crd_info(crd_mapping, "Widget") # Null

====
